---- MODULE Spec2Model ----
(***************************************************************************)
(* State-machine model of the ORB/Gamma trading bot: the workflow Engine   *)
(* (core/engine.py), the IBConnector session (ib_client/connector.py), the *)
(* IBWrapper event sink (ib_client/wrapper.py) and the strategy, gamma and *)
(* order components the Engine drives.                                     *)
(*                                                                         *)
(* Two threads are modelled: the workflow thread (main.py -> Engine.run)   *)
(* whose position is pc, and the gateway receive thread, whose callbacks   *)
(* are the Gw... actions that put payloads on the wrapper's queues.        *)
(* Python's None is the empty sequence <<>> and a value v is <<v>>.        *)
(***************************************************************************)
EXTENDS Integers, Sequences, FiniteSets, TLC

\* ------------------------------------------------------------------ bounds
\* connect() attempts the gateway may let time out before it answers
MaxConnectFailures == 1
\* historical bars the gateway streams for one request
MaxHistBars == 2
\* real-time bars the gateway delivers over the run
MaxRtBars == 3
\* liveness timeouts (60 s without a bar) while monitoring
MaxLivenessTimeouts == 1
\* largest first valid order id the gateway delivers (1..MaxFirstOrderId)
MaxFirstOrderId == 2
\* strikes left after filtering around the spot price
MaxStrikes == 2
\* 5-second bars per aggregated candle (aggregation_seconds / 5)
BarsToAggregate == 2
\* contract-details rows the gateway delivers for one request
MaxDetailsRows == 2
\* payloads the gateway delivers under a token no pending request carries
MaxForeign == 2
\* bars offered to an opening-range collector used on its own
MaxUnitBars == 3
\* sub-bars offered to a breakout aggregator used on its own
MaxUnitCalls == 13
\* calls made on an order manager and its connector used on their own
MaxOrderCalls == 2
\* connect() calls made on a connector used on its own
MaxConnectAttempts == 3
\* items of the option-chain stream waiting on the channel at a time
MaxParamsQueued == 1

\* ------------------------------------------------------- program constants
\* GEXAnalyzer.next_req_id starts here
GexReqIdBase == 1000
\* defaults of OpeningRangeStrategy.from_config, in minutes of the day
MarketOpenMinute == 570
DurationMinutes == 30
\* seconds of one real-time bar
SubBarSeconds == 5

AggregationSeconds == SubBarSeconds * BarsToAggregate

None == <<>>
Some(v) == <<v>>
IsNone(o) == o = <<>>
\* Python truthiness of an Optional number: None and 0 are false
TruthyNum(o) == o # <<>> /\ o[1] # 0

VARIABLES
  pc,                   \* position of the workflow thread in main()/run()
  state,                \* Engine.state
  is_connected,         \* IBConnector._is_connected
  client_isConnected,   \* EClient.isConnected(): the socket is up
  next_order_id,        \* IBConnector.next_order_id (None until connected)
  next_req_id,          \* Engine.next_req_id
  gex_next_req_id,      \* GEXAnalyzer.next_req_id
  rt_bars_req_id,       \* Engine.rt_bars_req_id
  orb_bars,             \* OpeningRangeStrategy.bars
  bars_received,        \* local list of _state_get_opening_range
  orb_high, orb_low,    \* Engine.orb_high / orb_low
  five_second_bars,     \* BreakoutStrategy.five_second_bars
  breakout_signal,      \* Engine.breakout_signal
  spot_price,           \* Engine.spot_price
  highest_gex_strike,   \* Engine.highest_gex_strike
  option_expiration,    \* Engine.option_expiration
  next_valid_id_queue,  \* IBWrapper.next_valid_id_queue
  historical_data_queue,\* IBWrapper.historical_data_queue
  realtime_bar_queue,   \* IBWrapper.realtime_bar_queue
  error_queue,          \* IBWrapper.error_queue
  client_log,           \* every call made on the gateway client, in order
  place_trade_calls,    \* invocations of OrderManager.place_trade
  contract_details_queue, \* IBWrapper.contract_details_queue
  rcd,                  \* frame of IBConnector.resolve_contract_details
  unit,                 \* a strategy object used on its own: its constructor
                        \* arguments, the last call's argument and result
  tick_price_queue,     \* IBWrapper.tick_price_queue
  option_computation_queue, \* IBWrapper.option_computation_queue
  tick_size_queue,      \* IBWrapper.tick_size_queue
  sec_def_opt_params_queue, \* IBWrapper.sec_def_opt_params_queue
  gex,                  \* frame of GEXAnalyzer.find_and_calculate_gex and of
                        \* the methods it calls
  gw                    \* what the gateway has done so far (environment)

engineVars == <<state, next_req_id, rt_bars_req_id, orb_bars, bars_received,
                orb_high, orb_low, five_second_bars, breakout_signal, spot_price,
                highest_gex_strike, option_expiration, gex_next_req_id,
                place_trade_calls>>
sessionVars == <<is_connected, client_isConnected, next_order_id, client_log>>
queueVars == <<next_valid_id_queue, historical_data_queue, realtime_bar_queue,
               error_queue>>
gexVars == <<tick_price_queue, option_computation_queue, tick_size_queue,
             sec_def_opt_params_queue, gex>>
callVars == <<contract_details_queue, rcd, unit, gexVars>>
vars == <<pc, engineVars, sessionVars, queueVars, callVars, gw>>

Call(op, id) == [op |-> op, id |-> id]

\* a queue of capacity one, whose put blocks while an item waits
can_put_bounded(queue) == Len(queue) < 1

\* queue.Queue() of IBWrapper.__init__: maxsize 0, so put never finds the
\* queue full and never blocks
can_put(queue) == TRUE

\* a put that places the item at the head
put_front(queue, item) == <<item>> \o queue

\* queue.Queue.put: the item joins the tail
put(queue, item) == Append(queue, item)

\* no strategy object is used on its own
NoUnit == [fn |-> "none"]

\* find_and_calculate_gex is not running: no locals
NoGex ==
  [at |-> "idle", expiration |-> None, spot_price |-> None, req_id |-> None,
   strikes |-> <<>>, strike |-> 0, call_req_id |-> None, put_req_id |-> None,
   leg |-> "none", gamma |-> None, open_interest |-> None, call |-> None,
   gex_results |-> <<>>, result |-> None]

\* ------------------------------------------------------------ construction
\* Engine.__init__ with the IBConnector and IBWrapper it builds
Constructed ==
  /\ pc = "init"
  /\ state = "INITIALIZING"
  /\ is_connected = FALSE
  /\ client_isConnected = FALSE
  /\ next_order_id = None
  /\ next_req_id = 0
  /\ gex_next_req_id = GexReqIdBase
  /\ rt_bars_req_id = None
  /\ orb_bars = <<>>
  /\ bars_received = <<>>
  /\ orb_high = 0
  /\ orb_low = 0
  /\ five_second_bars = <<>>
  /\ breakout_signal = None
  /\ spot_price = 0
  /\ highest_gex_strike = 0
  /\ option_expiration = None
  /\ next_valid_id_queue = <<>>
  /\ historical_data_queue = <<>>
  /\ realtime_bar_queue = <<>>
  /\ error_queue = <<>>
  /\ client_log = <<>>
  /\ place_trade_calls = 0
  /\ contract_details_queue = <<>>
  /\ rcd = [at |-> "idle", req_id |-> None, details |-> None, result |-> None]
  /\ tick_price_queue = <<>>
  /\ option_computation_queue = <<>>
  /\ tick_size_queue = <<>>
  /\ sec_def_opt_params_queue = <<>>
  /\ gex = NoGex
  /\ gw = [connect_failures |-> 0, lost_in |-> None, hist_req |-> None,
           hist_bars |-> 0, hist_done |-> FALSE, rt_bars |-> 0, timeouts |-> 0,
           cd_rows |-> 0, cd_done |-> FALSE, foreign |-> 0, ticks |-> {}]

Init == Constructed /\ unit = NoUnit

\* ------------------------------------------------------------- IBConnector
\* A session snapshot s has the fields is_connected, client_isConnected and
\* log (and any others, which the session operations leave alone).
Session == [is_connected |-> is_connected,
            client_isConnected |-> client_isConnected,
            log |-> client_log,
            state |-> state,
            rt |-> rt_bars_req_id]

\* IBConnector.is_connected
connector_is_connected(s) == s.is_connected

\* a disconnect that closes the client and leaves _is_connected set
disconnect_keeps_flag(s) ==
  IF ~connector_is_connected(s) /\ ~s.client_isConnected
  THEN s
  ELSE [s EXCEPT !.client_isConnected = FALSE,
                 !.log = Append(@, Call("disconnect", 0))]

\* IBConnector.disconnect
disconnect(s) ==
  IF ~connector_is_connected(s) /\ ~s.client_isConnected
  THEN s                                   \* "Already disconnected."
  ELSE [s EXCEPT !.is_connected = FALSE,
                 !.client_isConnected = FALSE,
                 !.log = Append(@, Call("disconnect", 0))]

\* a cancel that never reaches the client
cancel_real_time_bars_dropped(s, id) == s

\* IBConnector.cancel_real_time_bars
cancel_real_time_bars(s, id) ==
  [s EXCEPT !.log = Append(@, Call("cancelRealTimeBars", id))]

\* a shutdown whose early return looks at the state alone
shutdown_returns_on_state(s) ==
  IF s.state = "SHUTDOWN"
  THEN s
  ELSE LET s1 == IF TruthyNum(s.rt)
                 THEN [cancel_real_time_bars(s, s.rt[1]) EXCEPT !.rt = None]
                 ELSE s
           s2 == IF connector_is_connected(s1) THEN disconnect(s1) ELSE s1
       IN  [s2 EXCEPT !.state = "SHUTDOWN"]

\* Engine.shutdown
shutdown(s) ==
  IF s.state = "SHUTDOWN" /\ ~connector_is_connected(s)
  THEN s                                   \* already shut down
  ELSE LET s1 == IF TruthyNum(s.rt)
                 THEN [cancel_real_time_bars(s, s.rt[1]) EXCEPT !.rt = None]
                 ELSE s
           s2 == IF connector_is_connected(s1) THEN disconnect(s1) ELSE s1
       IN  [s2 EXCEPT !.state = "SHUTDOWN"]

\* writes a session snapshot back to the variables it was taken from
SetSession(s) ==
  /\ is_connected' = s.is_connected
  /\ client_isConnected' = s.client_isConnected
  /\ client_log' = s.log
  /\ state' = s.state
  /\ rt_bars_req_id' = s.rt

FirstOrderIds == 1..MaxFirstOrderId

\* -------------------------------------------------------------------- run
\* Engine.run, entry: self.state = "CONNECTING"
Run ==
  /\ pc = "init"
  /\ state' = "CONNECTING"
  /\ pc' = "loop"
  /\ UNCHANGED <<callVars,
                 next_req_id, rt_bars_req_id, orb_bars, bars_received, orb_high,
                 orb_low, five_second_bars, breakout_signal, spot_price,
                 highest_gex_strike, option_expiration, gex_next_req_id,
                 place_trade_calls, sessionVars, queueVars, gw>>

\* a connect that tries a second time
client_connect_twice(log) ==
  Append(Append(log, Call("connect", 0)), Call("connect", 0))

\* IBConnector.connect, "self.client.connect(host, port, client_id)": the one
\* connection attempt of a connect() call
client_connect(log) == Append(log, Call("connect", 0))

\* a connect failure treated as fatal
state_after_connect_fatal(st, connected) ==
  IF connected THEN "GETTING_OPENING_RANGE" ELSE "SHUTDOWN"

\* Engine._state_connect, the state after connect() has returned (connected)
\* or raised ConnectionError (not connected; caught, then time.sleep(10))
state_after_connect(st, connected) ==
  IF connected THEN "GETTING_OPENING_RANGE" ELSE st

\* Engine._state_connect with IBConnector.connect and _wait_for_connection.
\* The wait takes the head of next_valid_id_queue; when the queue is empty the
\* gateway either delivers nextValidId(v) within the 10 s bound or does not.
StateConnect ==
  /\ pc = "loop"
  /\ state = "CONNECTING"
  /\ IF is_connected
     THEN \* connect(): "Already connected."
          /\ state' = state_after_connect(state, TRUE)
          /\ UNCHANGED <<sessionVars, next_valid_id_queue, gw>>
     ELSE \E sock \in BOOLEAN, answer \in {None} \cup {Some(v) : v \in FirstOrderIds} :
          LET log1 == client_connect(client_log)
              stale == next_valid_id_queue # <<>>
          IN  \* the gateway answers only over an open socket, and an id
              \* already queued is taken before any answer is awaited
              /\ (answer # None) => (sock /\ ~stale)
              /\ IF stale \/ answer # None
                 THEN \* nextValidId dequeued: connected
                      /\ next_order_id' =
                           IF stale THEN Some(Head(next_valid_id_queue)) ELSE answer
                      /\ next_valid_id_queue' =
                           IF stale THEN Tail(next_valid_id_queue) ELSE <<>>
                      /\ is_connected' = TRUE
                      /\ client_isConnected' = sock
                      /\ client_log' = log1
                      /\ state' = state_after_connect(state, TRUE)
                      /\ gw' = gw
                 ELSE \* Empty: disconnect(), ConnectionError, disconnect(), sleep
                      /\ gw.connect_failures < MaxConnectFailures
                      /\ LET s0 == [Session EXCEPT !.client_isConnected = sock,
                                                   !.log = log1]
                             s2 == disconnect(disconnect(s0))
                         IN  /\ is_connected' = s2.is_connected
                             /\ client_isConnected' = s2.client_isConnected
                             /\ client_log' = s2.log
                      /\ state' = state_after_connect(state, FALSE)
                      /\ gw' = [gw EXCEPT !.connect_failures = @ + 1]
                      /\ UNCHANGED <<next_order_id, next_valid_id_queue>>
  /\ pc' = "loop"
  /\ UNCHANGED <<callVars,
                 next_req_id, rt_bars_req_id, orb_bars, bars_received, orb_high,
                 orb_low, five_second_bars, breakout_signal, spot_price,
                 highest_gex_strike, option_expiration, gex_next_req_id,
                 place_trade_calls, historical_data_queue, realtime_bar_queue,
                 error_queue>>

\* ---------------------------------------------------- OpeningRangeStrategy
\* Timestamps of historical bars are minutes since an epoch midnight.
\* a window closed at its end
is_bar_valid_closed(bar) ==
  LET session_open == (bar.timestamp \div 1440) * 1440 + MarketOpenMinute
      session_end == session_open + DurationMinutes
  IN  session_open <= bar.timestamp /\ bar.timestamp <= session_end

\* OpeningRangeStrategy.is_bar_valid: the window is taken on the bar's own date
is_bar_valid(bar) ==
  LET session_open == (bar.timestamp \div 1440) * 1440 + MarketOpenMinute
      session_end == session_open + DurationMinutes
  IN  session_open <= bar.timestamp /\ bar.timestamp < session_end

\* OpeningRangeStrategy.add_bar: the new value of self.bars
add_bar(bars, bar) == IF is_bar_valid(bar) THEN Append(bars, bar) ELSE bars

RECURSIVE add_bars(_, _)
\* the loop "for bar in bars_received: self.orb_strategy.add_bar(bar)"
add_bars(bars, received) ==
  IF received = <<>> THEN bars
  ELSE add_bars(add_bar(bars, Head(received)), Tail(received))

SeqMax(S) == CHOOSE x \in S : \A y \in S : y <= x
SeqMin(S) == CHOOSE x \in S : \A y \in S : x <= y

\* levels taken from the last bar alone
calculate_levels_last_bar(bars) ==
  IF bars = <<>> THEN <<None, None>>
  ELSE <<Some(bars[Len(bars)].high), Some(bars[Len(bars)].low)>>

\* OpeningRangeStrategy.calculate_levels: <<high, low>>, each an Optional
calculate_levels(bars) ==
  IF bars = <<>> THEN <<None, None>>
  ELSE <<Some(SeqMax({bars[i].high : i \in 1..Len(bars)})),
         Some(SeqMin({bars[i].low : i \in 1..Len(bars)}))>>

\* bars the gateway may stream: inside the window, on its end, with price 0
HistBars ==
  { [timestamp |-> MarketOpenMinute, high |-> 5, low |-> 4],
    [timestamp |-> MarketOpenMinute + 1, high |-> 0, low |-> 0],
    [timestamp |-> MarketOpenMinute + DurationMinutes, high |-> 9, low |-> 1] }

\* Engine.get_next_req_id
get_next_req_id(n) == n + 1

\* Engine._state_get_opening_range, steps 1-2: the historical request is sent
StateGetOpeningRange ==
  /\ pc = "loop"
  /\ state = "GETTING_OPENING_RANGE"
  /\ next_req_id' = get_next_req_id(next_req_id)
  /\ client_log' = Append(client_log, Call("reqHistoricalData", next_req_id'))
  /\ bars_received' = <<>>
  /\ gw' = [gw EXCEPT !.hist_req = Some(next_req_id')]
  /\ pc' = "hist_wait"
  /\ UNCHANGED <<callVars,
                 state, rt_bars_req_id, orb_bars, orb_high, orb_low,
                 five_second_bars, breakout_signal, spot_price,
                 highest_gex_strike, option_expiration, gex_next_req_id,
                 place_trade_calls, is_connected, client_isConnected,
                 next_order_id, queueVars>>

\* IBWrapper.historicalData on the receive thread
GwHistoricalData ==
  /\ gw.hist_req # None /\ client_isConnected
  /\ ~gw.hist_done /\ gw.hist_bars < MaxHistBars
  /\ can_put(historical_data_queue)
  /\ \E bar \in HistBars :
       historical_data_queue' =
         put(historical_data_queue, <<gw.hist_req[1], Some(bar)>>)
  /\ gw' = [gw EXCEPT !.hist_bars = @ + 1]
  /\ UNCHANGED <<callVars,
                 pc, engineVars, sessionVars, next_valid_id_queue,
                 realtime_bar_queue, error_queue>>

\* IBWrapper.historicalDataEnd on the receive thread: the sentinel
GwHistoricalDataEnd ==
  /\ gw.hist_req # None /\ client_isConnected
  /\ ~gw.hist_done
  /\ can_put(historical_data_queue)
  /\ historical_data_queue' =
       put(historical_data_queue, <<gw.hist_req[1], None>>)
  /\ gw' = [gw EXCEPT !.hist_done = TRUE]
  /\ UNCHANGED <<callVars,
                 pc, engineVars, sessionVars, next_valid_id_queue,
                 realtime_bar_queue, error_queue>>

\* Engine._state_get_opening_range, step 3: one historical_data_queue.get
\* that returns an item (a bar, or the sentinel that ends the handler)
HistGet ==
  /\ pc = "hist_wait"
  /\ historical_data_queue # <<>>
  /\ LET data == Head(historical_data_queue)[2]
     IN  IF data = None
         THEN LET bars == add_bars(orb_bars, bars_received)
                  levels == calculate_levels(bars)
                  high == levels[1]
                  low == levels[2]
              IN  /\ orb_bars' = bars
                  /\ IF TruthyNum(high) /\ TruthyNum(low)
                     THEN /\ orb_high' = high[1]
                          /\ orb_low' = low[1]
                          /\ state' = "MONITORING_BREAKOUT"
                     ELSE /\ state' = "SHUTDOWN"
                          /\ UNCHANGED <<orb_high, orb_low>>
                  /\ bars_received' = <<>>
                  /\ pc' = "loop"
         ELSE /\ bars_received' = Append(bars_received, data[1])
              /\ UNCHANGED <<pc, state, orb_bars, orb_high, orb_low>>
  /\ historical_data_queue' = Tail(historical_data_queue)
  /\ UNCHANGED <<callVars,
                 next_req_id, rt_bars_req_id, five_second_bars, breakout_signal,
                 spot_price, highest_gex_strike, option_expiration,
                 gex_next_req_id, place_trade_calls, sessionVars,
                 next_valid_id_queue, realtime_bar_queue, error_queue, gw>>

\* a timed-out stream treated as complete: the range of the bars so far
HistTimeout_uses_partial_stream ==
  /\ pc = "hist_wait"
  /\ historical_data_queue = <<>>
  /\ LET bars == add_bars(orb_bars, bars_received)
         levels == calculate_levels(bars)
     IN  /\ orb_bars' = bars
         /\ IF TruthyNum(levels[1]) /\ TruthyNum(levels[2])
            THEN /\ orb_high' = levels[1][1]
                 /\ orb_low' = levels[2][1]
                 /\ state' = "MONITORING_BREAKOUT"
            ELSE /\ state' = "SHUTDOWN"
                 /\ UNCHANGED <<orb_high, orb_low>>
  /\ bars_received' = <<>>
  /\ pc' = "loop"
  /\ UNCHANGED <<callVars,
                 next_req_id, rt_bars_req_id, five_second_bars,
                 breakout_signal, spot_price, highest_gex_strike,
                 option_expiration, gex_next_req_id, place_trade_calls,
                 sessionVars, queueVars, gw>>

\* Engine._state_get_opening_range, "except Empty": 20 s without an item
HistTimeout ==
  /\ pc = "hist_wait"
  /\ historical_data_queue = <<>>
  /\ state' = "SHUTDOWN"
  /\ bars_received' = <<>>
  /\ pc' = "loop"
  /\ UNCHANGED <<callVars,
                 next_req_id, rt_bars_req_id, orb_bars, orb_high, orb_low,
                 five_second_bars, breakout_signal, spot_price,
                 highest_gex_strike, option_expiration, gex_next_req_id,
                 place_trade_calls, sessionVars, queueVars, gw>>

\* --------------------------------------------------------- BreakoutStrategy
\* Timestamps of real-time bars are seconds since an epoch midnight.
Signal(type, price) == [signal_type |-> type, price |-> price]

\* a candle whose high is the first sub-bar's
aggregate_bars_first_high(buf) ==
  IF buf = <<>> THEN None
  ELSE Some([timestamp |-> buf[1].timestamp,
             open |-> buf[1].open,
             high |-> buf[1].high,
             low |-> SeqMin({buf[i].low : i \in 1..Len(buf)}),
             close |-> buf[Len(buf)].close,
             volume |-> LET RECURSIVE sum(_)
                            sum(i) == IF i = 0 THEN 0 ELSE buf[i].volume + sum(i - 1)
                        IN  sum(Len(buf))])

\* BreakoutStrategy._aggregate_bars (None for an empty buffer)
aggregate_bars(buf) ==
  IF buf = <<>> THEN None
  ELSE Some([timestamp |-> buf[1].timestamp,
             open |-> buf[1].open,
             high |-> SeqMax({buf[i].high : i \in 1..Len(buf)}),
             low |-> SeqMin({buf[i].low : i \in 1..Len(buf)}),
             close |-> buf[Len(buf)].close,
             volume |-> LET RECURSIVE sum(_)
                            sum(i) == IF i = 0 THEN 0 ELSE buf[i].volume + sum(i - 1)
                        IN  sum(Len(buf))])

\* a breakout rule that counts a candle touching a level as outside
check_breakout_inclusive(bar, high_level, low_level) ==
  IF bar.close > bar.open /\ bar.low >= high_level
  THEN [signal_type |-> "BUY", price |-> Some(bar.close)]
  ELSE IF bar.close < bar.open /\ bar.high <= low_level
  THEN [signal_type |-> "SELL", price |-> Some(bar.close)]
  ELSE [signal_type |-> "HOLD", price |-> None]

\* BreakoutStrategy.check_breakout
check_breakout(bar, high_level, low_level) ==
  IF bar.close > bar.open /\ bar.low > high_level
  THEN Signal("BUY", Some(bar.close))
  ELSE IF bar.close < bar.open /\ bar.high < low_level
  THEN Signal("SELL", Some(bar.close))
  ELSE Signal("HOLD", None)

\* BreakoutStrategy.__init__: self.bars_to_aggregate
bars_to_aggregate(aggregation_seconds) == aggregation_seconds \div SubBarSeconds

\* an append that never discards the buffer
buffer_after_append_keep(aggregation_seconds, buf, bar) == Append(buf, bar)

\* the buffer after the window check of add_realtime_bar and the append,
\* for a strategy built with aggregation_seconds; first_bar_ts.second is the
\* timestamp's seconds within its minute
buffer_after_append_in(aggregation_seconds, buf, bar) ==
  IF buf = <<>> THEN <<bar>>
  ELSE LET first_bar_ts == buf[1].timestamp
           window_start_ts ==
             first_bar_ts - ((first_bar_ts % 60) % aggregation_seconds)
           window_end_ts == window_start_ts + aggregation_seconds
       IN  IF window_start_ts <= bar.timestamp /\ bar.timestamp < window_end_ts
           THEN Append(buf, bar)
           ELSE <<bar>>

\* an aggregator that keeps its buffer after a candle was formed
add_realtime_bar_keeps_buffer(aggregation_seconds, buf, bar, high_level, low_level) ==
  LET b1 == buffer_after_append_in(aggregation_seconds, buf, bar)
  IN  IF Len(b1) = bars_to_aggregate(aggregation_seconds)
      THEN [buf |-> b1,
            signal |-> check_breakout(aggregate_bars(b1)[1], high_level, low_level)]
      ELSE [buf |-> b1, signal |-> Signal("HOLD", None)]

\* BreakoutStrategy.add_realtime_bar of a strategy built with
\* aggregation_seconds: [buf |-> new buffer, signal |-> Signal returned]
add_realtime_bar_in(aggregation_seconds, buf, bar, high_level, low_level) ==
  LET b1 == buffer_after_append_in(aggregation_seconds, buf, bar)
  IN  IF Len(b1) = bars_to_aggregate(aggregation_seconds)
      THEN LET candle == aggregate_bars(b1)
           IN  [buf |-> <<>>,
                signal |-> IF candle # None
                           THEN check_breakout(candle[1], high_level, low_level)
                           ELSE Signal("HOLD", None)]
      ELSE [buf |-> b1, signal |-> Signal("HOLD", None)]

\* the same for the engine's strategy, built from the configuration
buffer_after_append(buf, bar) ==
  buffer_after_append_in(AggregationSeconds, buf, bar)

\* BreakoutStrategy.add_realtime_bar as the engine calls it
add_realtime_bar(buf, bar, high_level, low_level) ==
  add_realtime_bar_in(AggregationSeconds, buf, bar, high_level, low_level)

\* shapes of the 5-second bars the gateway delivers: one wholly above every
\* opening range of HistBars and rising, one wholly below and falling
RtShapes ==
  { [open |-> 7, high |-> 8, low |-> 7, close |-> 8, volume |-> 1],
    [open |-> 2, high |-> 2, low |-> 1, close |-> 1, volume |-> 1] }

\* tokens of the real-time bar subscriptions requested / cancelled so far
RtRequested(log) ==
  { log[i].id : i \in { j \in 1..Len(log) : log[j].op = "reqRealTimeBars" } }
RtCancelled(log) ==
  { log[i].id : i \in { j \in 1..Len(log) : log[j].op = "cancelRealTimeBars" } }

\* IBConnector.req_real_time_bars
req_real_time_bars(log, id) == Append(log, Call("reqRealTimeBars", id))

\* Engine._state_monitor_for_breakout, entry: a new subscription is opened
StateMonitorForBreakout ==
  /\ pc = "loop"
  /\ state = "MONITORING_BREAKOUT"
  /\ next_req_id' = get_next_req_id(next_req_id)
  /\ rt_bars_req_id' = Some(next_req_id')
  /\ client_log' = req_real_time_bars(client_log, next_req_id')
  /\ pc' = "monitor_wait"
  /\ UNCHANGED <<callVars,
                 state, orb_bars, bars_received, orb_high, orb_low,
                 five_second_bars, breakout_signal, spot_price,
                 highest_gex_strike, option_expiration, gex_next_req_id,
                 place_trade_calls, is_connected, client_isConnected,
                 next_order_id, queueVars, gw>>

\* IBWrapper.realtimeBar on the receive thread, for a subscription that was
\* requested and not cancelled; bars follow each other 5 seconds apart
GwRealtimeBar ==
  /\ client_isConnected
  /\ gw.rt_bars < MaxRtBars
  /\ can_put(realtime_bar_queue)
  /\ \E id \in RtRequested(client_log) \ RtCancelled(client_log),
        shape \in RtShapes :
       realtime_bar_queue' =
         put(realtime_bar_queue,
                <<id, [timestamp |-> SubBarSeconds * gw.rt_bars,
                       open |-> shape.open, high |-> shape.high,
                       low |-> shape.low, close |-> shape.close,
                       volume |-> shape.volume]>>)
  /\ gw' = [gw EXCEPT !.rt_bars = @ + 1]
  /\ UNCHANGED <<callVars,
                 pc, engineVars, sessionVars, next_valid_id_queue,
                 historical_data_queue, error_queue>>

\* Engine._state_monitor_for_breakout, one pass of the while loop in which
\* realtime_bar_queue.get returns a bar
MonitorGet ==
  /\ pc = "monitor_wait"
  /\ realtime_bar_queue # <<>>
  /\ LET bar == Head(realtime_bar_queue)[2]
         r == add_realtime_bar(five_second_bars, bar, orb_high, orb_low)
         signal == r.signal
     IN  /\ five_second_bars' = r.buf
         /\ IF signal.signal_type # "HOLD"
            THEN /\ breakout_signal' = Some(signal)
                 /\ spot_price' = IF TruthyNum(signal.price)
                                  THEN signal.price[1] ELSE bar.close
                 /\ state' = "ANALYZING_GEX"
                 /\ client_log' =
                      cancel_real_time_bars(Session, rt_bars_req_id[1]).log
                 /\ rt_bars_req_id' = None
                 /\ pc' = "loop"
            ELSE UNCHANGED <<breakout_signal, spot_price, state, client_log,
                             rt_bars_req_id, pc>>
  /\ realtime_bar_queue' = Tail(realtime_bar_queue)
  /\ UNCHANGED <<callVars,
                 next_req_id, orb_bars, bars_received, orb_high, orb_low,
                 highest_gex_strike, option_expiration, gex_next_req_id,
                 place_trade_calls, is_connected, client_isConnected,
                 next_order_id, next_valid_id_queue, historical_data_queue,
                 error_queue, gw>>

\* Engine._state_monitor_for_breakout, "except Empty": 60 s without a bar
MonitorTimeout ==
  /\ pc = "monitor_wait"
  /\ realtime_bar_queue = <<>>
  /\ gw.timeouts < MaxLivenessTimeouts
  /\ state' = IF ~connector_is_connected(Session) THEN "CONNECTING" ELSE state
  /\ gw' = [gw EXCEPT !.timeouts = @ + 1]
  /\ pc' = "loop"
  /\ UNCHANGED <<callVars,
                 next_req_id, rt_bars_req_id, orb_bars, bars_received, orb_high,
                 orb_low, five_second_bars, breakout_signal, spot_price,
                 highest_gex_strike, option_expiration, gex_next_req_id,
                 place_trade_calls, sessionVars, queueVars>>

\* IBWrapper.connectionClosed on the receive thread: the link to the gateway
\* is lost; the event goes to error_queue with token -1
GwConnectionClosed ==
  /\ client_isConnected
  /\ can_put(error_queue)
  /\ client_isConnected' = FALSE
  /\ error_queue' = put(error_queue, <<-1, -1, "Connection lost">>)
  /\ gw' = [gw EXCEPT !.lost_in = Some(state)]
  /\ UNCHANGED <<callVars,
                 pc, engineVars, is_connected, next_order_id, client_log,
                 next_valid_id_queue, historical_data_queue, realtime_bar_queue>>

\* -------------------------------------------------------------- GEXAnalyzer
\* IBConnector.get_next_order_id: [id |-> returned id, next |-> counter after]
get_next_order_id(noid) ==
  IF ~TruthyNum(noid)
  THEN [id |-> -1, next |-> noid]
  ELSE [id |-> noid[1], next |-> Some(noid[1] + 1)]

\* GEXAnalyzer.get_next_req_id
gex_get_next_req_id(n) == n + 1

\* strike i of the filtered chain
StrikeAt(i) == 9 * (i - 1)

\* the four market-data calls of one strike in _calculate_gex_for_strikes,
\* whose tokens are the two drawn after token n
StrikeCalls(n) ==
  LET call_req_id == gex_get_next_req_id(n)
      put_req_id == gex_get_next_req_id(call_req_id)
  IN  << Call("reqMktData", call_req_id), Call("reqMktData", put_req_id),
         Call("cancelMktData", call_req_id), Call("cancelMktData", put_req_id) >>

RECURSIVE StrikesCalls(_, _)
\* the calls of the per-strike loop over k strikes, tokens drawn after n
StrikesCalls(n, k) ==
  IF k = 0 THEN <<>> ELSE StrikeCalls(n) \o StrikesCalls(n + 2, k - 1)

\* GEXAnalyzer.find_and_calculate_gex together with
\* IBConnector.resolve_contract_details, as far as the gateway lets it get:
\* depth 0 the underlying is not resolved, 1 no option parameters, 2 no
\* expiration matches, 3 no spot price, 4 the per-strike loop runs over k
\* strikes of which those in done deliver gamma and open interest in time.
\* Gives the calls made, the counters after, and the result (None on failure).
find_and_calculate_gex(noid, n, depth, k, done, best) ==
  LET oid == get_next_order_id(noid)
      resolve == << Call("reqContractDetails", oid.id) >>
      params_req_id == gex_get_next_req_id(n)
      params == << Call("reqSecDefOptParams", params_req_id) >>
      spot_req_id == gex_get_next_req_id(params_req_id)
      spot == << Call("reqMktData", spot_req_id), Call("cancelMktData", spot_req_id) >>
  IN  CASE depth = 0 ->
             [calls |-> resolve, next_order_id |-> oid.next, next_req_id |-> n,
              result |-> None]
        [] depth \in {1, 2} ->
             [calls |-> resolve \o params, next_order_id |-> oid.next,
              next_req_id |-> params_req_id, result |-> None]
        [] depth = 3 ->
             [calls |-> resolve \o params \o spot, next_order_id |-> oid.next,
              next_req_id |-> spot_req_id, result |-> None]
        [] OTHER ->
             [calls |-> resolve \o params \o spot \o StrikesCalls(spot_req_id, k),
              next_order_id |-> oid.next,
              next_req_id |-> spot_req_id + 2 * k,
              result |-> IF done = {} THEN None
                         ELSE Some(<<StrikeAt(best), "20240105">>)]

\* a failed analysis going back to wait for another signal
state_after_gex_remonitor(result) ==
  IF result # None THEN "PENDING_TRADE_EXECUTION" ELSE "MONITORING_BREAKOUT"

\* Engine._state_analyze_gex, the state for a gex_result
state_after_gex(result) ==
  IF result # None THEN "PENDING_TRADE_EXECUTION" ELSE "SHUTDOWN"

\* Engine._state_analyze_gex
StateAnalyzeGex ==
  /\ pc = "loop"
  /\ state = "ANALYZING_GEX"
  /\ \E depth \in 0..4, k \in 0..MaxStrikes :
     \E done \in SUBSET (1..k) :
     \E best \in (IF done = {} THEN {0} ELSE done) :
       \* nothing is answered over a closed socket; the later inputs are
       \* read only when the earlier steps succeeded
       /\ ~client_isConnected => depth = 0
       /\ depth < 4 => k = 0
       /\ LET r == find_and_calculate_gex(next_order_id, gex_next_req_id,
                                          depth, k, done, best)
          IN  /\ client_log' = client_log \o r.calls
              /\ next_order_id' = r.next_order_id
              /\ gex_next_req_id' = r.next_req_id
              /\ state' = state_after_gex(r.result)
              /\ IF r.result # None
                 THEN /\ highest_gex_strike' = r.result[1][1]
                      /\ option_expiration' = Some(r.result[1][2])
                 ELSE UNCHANGED <<highest_gex_strike, option_expiration>>
  /\ pc' = "loop"
  /\ UNCHANGED <<callVars,
                 next_req_id, rt_bars_req_id, orb_bars, bars_received, orb_high,
                 orb_low, five_second_bars, breakout_signal, spot_price,
                 place_trade_calls, is_connected, client_isConnected,
                 queueVars, gw>>

\* ------------------------------------------------------------- OrderManager
\* a decision that also trades when the strike is on the spot price
make_trade_decision_inclusive(signal, spot, highest_gamma_strike) ==
  IF signal.signal_type = "BUY" /\ highest_gamma_strike >= spot THEN Some("C")
  ELSE IF signal.signal_type = "SELL" /\ highest_gamma_strike <= spot
  THEN Some("P")
  ELSE None

\* OrderManager._make_trade_decision: the option right, or None for no trade
make_trade_decision(signal, spot, highest_gamma_strike) ==
  IF signal.signal_type = "BUY" /\ highest_gamma_strike > spot THEN Some("C")
  ELSE IF signal.signal_type = "SELL" /\ highest_gamma_strike < spot THEN Some("P")
  ELSE None

\* OrderManager.place_trade: "no_trade" when the decision is empty; otherwise
\* _create_option_contract reads contract_info['symbol'], a key that
\* InstrumentConfig.dict() (ticker, exchange, currency) does not have, and
\* the KeyError leaves place_trade before any order is placed
place_trade(signal, spot, highest_gamma_strike) ==
  IF make_trade_decision(signal, spot, highest_gamma_strike) = None
  THEN "no_trade"
  ELSE "KeyError"

\* a no-trade outcome sending the engine back to wait for another signal
StateExecuteTrade_remonitor ==
  /\ pc = "loop"
  /\ state = "PENDING_TRADE_EXECUTION"
  /\ IF option_expiration = None \/ option_expiration = Some("")
        \/ breakout_signal = None
     THEN /\ state' = "SHUTDOWN"
          /\ pc' = "loop"
          /\ UNCHANGED place_trade_calls
     ELSE /\ place_trade_calls' = place_trade_calls + 1
          /\ IF place_trade(breakout_signal[1], spot_price, highest_gex_strike)
                  = "no_trade"
             THEN state' = "MONITORING_BREAKOUT" /\ pc' = "loop"
             ELSE state' = state /\ pc' = "finally"
  /\ UNCHANGED <<callVars,
                 next_req_id, rt_bars_req_id, orb_bars, bars_received, orb_high,
                 orb_low, five_second_bars, breakout_signal, spot_price,
                 highest_gex_strike, option_expiration, gex_next_req_id,
                 sessionVars, queueVars, gw>>

\* Engine._state_execute_trade
StateExecuteTrade ==
  /\ pc = "loop"
  /\ state = "PENDING_TRADE_EXECUTION"
  /\ IF option_expiration = None \/ option_expiration = Some("")
        \/ breakout_signal = None
     THEN /\ state' = "SHUTDOWN"
          /\ pc' = "loop"
          /\ UNCHANGED place_trade_calls
     ELSE /\ place_trade_calls' = place_trade_calls + 1
          /\ IF place_trade(breakout_signal[1], spot_price, highest_gex_strike)
                  = "no_trade"
             THEN state' = "SHUTDOWN" /\ pc' = "loop"
             ELSE state' = state /\ pc' = "finally"
  /\ UNCHANGED <<callVars,
                 next_req_id, rt_bars_req_id, orb_bars, bars_received, orb_high,
                 orb_low, five_second_bars, breakout_signal, spot_price,
                 highest_gex_strike, option_expiration, gex_next_req_id,
                 sessionVars, queueVars, gw>>

\* ------------------------------------------------------- leaving the loop
\* Engine.run: the while condition fails, control reaches the finally block
LoopExit ==
  /\ pc = "loop"
  /\ state = "SHUTDOWN"
  /\ pc' = "finally"
  /\ UNCHANGED <<callVars,
                 engineVars, sessionVars, queueVars, gw>>

\* KeyboardInterrupt delivered to the workflow thread inside the while loop
\* (in a handler's blocking wait or in time.sleep)
KeyboardInterrupt ==
  /\ pc \in {"loop", "hist_wait", "monitor_wait"}
  /\ state # "SHUTDOWN"
  /\ pc' = "finally"
  /\ bars_received' = <<>>
  /\ UNCHANGED <<callVars,
                 state, next_req_id, rt_bars_req_id, orb_bars, orb_high, orb_low,
                 five_second_bars, breakout_signal, spot_price,
                 highest_gex_strike, option_expiration, gex_next_req_id,
                 place_trade_calls, sessionVars, queueVars, gw>>

\* Engine.run, "finally: self.shutdown()"; run() then returns
RunFinally ==
  /\ pc = "finally"
  /\ SetSession(shutdown(Session))
  /\ pc' = "returned"
  /\ UNCHANGED <<callVars,
                 next_req_id, orb_bars, bars_received, orb_high, orb_low,
                 five_second_bars, breakout_signal, spot_price,
                 highest_gex_strike, option_expiration, gex_next_req_id,
                 place_trade_calls, next_order_id, queueVars, gw>>

\* main(), "finally: engine.shutdown()": the second call of shutdown
MainFinally ==
  /\ pc = "returned"
  /\ SetSession(shutdown(Session))
  /\ pc' = "exited"
  /\ UNCHANGED <<callVars,
                 next_req_id, orb_bars, bars_received, orb_high, orb_low,
                 five_second_bars, breakout_signal, spot_price,
                 highest_gex_strike, option_expiration, gex_next_req_id,
                 place_trade_calls, next_order_id, queueVars, gw>>

Next ==
  \/ Run
  \/ StateConnect
  \/ StateGetOpeningRange
  \/ GwHistoricalData
  \/ GwHistoricalDataEnd
  \/ HistGet
  \/ HistTimeout
  \/ StateMonitorForBreakout
  \/ GwRealtimeBar
  \/ MonitorGet
  \/ MonitorTimeout
  \/ GwConnectionClosed
  \/ StateAnalyzeGex
  \/ StateExecuteTrade
  \/ LoopExit
  \/ KeyboardInterrupt
  \/ RunFinally
  \/ MainFinally

Spec == Init /\ [][Next]_vars

\* ------------------------------------------------------ the blocking waits
\* The waits of the workflow thread taken step by step, under a gateway that
\* also delivers payloads whose token is not the pending request's.

\* a token other than the one a request was sent with
OtherToken(id) == id + 1

\* tokens of the contract-details requests sent so far
DetailsRequested(log) ==
  { log[i].id : i \in { j \in 1..Len(log) : log[j].op = "reqContractDetails" } }

\* the items of a queue that carry a token
ItemsOf(queue, id) == { i \in 1..Len(queue) : queue[i][1] = id }

\* IBConnector.resolve_contract_details, entry: the token is drawn from the
\* order-id counter and the request is sent
ResolveCall ==
  /\ pc = "loop"
  /\ state = "ANALYZING_GEX"
  /\ rcd.at = "idle"
  /\ LET oid == get_next_order_id(next_order_id)
     IN  /\ next_order_id' = oid.next
         /\ client_log' = Append(client_log, Call("reqContractDetails", oid.id))
         /\ rcd' = [at |-> "first", req_id |-> Some(oid.id), details |-> None,
                    result |-> None]
  /\ pc' = "resolve_wait"
  /\ UNCHANGED <<unit, gexVars, engineVars, is_connected, client_isConnected, queueVars,
                 contract_details_queue, gw>>

\* IBWrapper.contractDetails on the receive thread: a row for the request
GwContractDetails ==
  /\ client_isConnected
  /\ ~gw.cd_done /\ gw.cd_rows < MaxDetailsRows
  /\ can_put(contract_details_queue)
  /\ \E id \in DetailsRequested(client_log) :
       contract_details_queue' =
         put(contract_details_queue, <<id, Some("ContractDetails")>>)
  /\ gw' = [gw EXCEPT !.cd_rows = @ + 1]
  /\ UNCHANGED <<unit, gexVars, pc, engineVars, sessionVars, queueVars, rcd>>

\* IBWrapper.contractDetailsEnd on the receive thread: the sentinel
GwContractDetailsEnd ==
  /\ client_isConnected
  /\ ~gw.cd_done
  /\ can_put(contract_details_queue)
  /\ \E id \in DetailsRequested(client_log) :
       contract_details_queue' = put(contract_details_queue, <<id, None>>)
  /\ gw' = [gw EXCEPT !.cd_done = TRUE]
  /\ UNCHANGED <<unit, gexVars, pc, engineVars, sessionVars, queueVars, rcd>>

\* contractDetails / contractDetailsEnd for a token that is not the request's
GwForeignContractDetails ==
  /\ client_isConnected
  /\ gw.foreign < MaxForeign
  /\ can_put(contract_details_queue)
  /\ \E id \in DetailsRequested(client_log),
        data \in {None, Some("ContractDetails")} :
       contract_details_queue' =
         put(contract_details_queue, <<OtherToken(id), data>>)
  /\ gw' = [gw EXCEPT !.foreign = @ + 1]
  /\ UNCHANGED <<unit, gexVars, pc, engineVars, sessionVars, queueVars, rcd>>

\* resolve_contract_details, "Wait for the first result": the first get
\* returns an item
ResolveFirstGet ==
  /\ pc = "resolve_wait"
  /\ rcd.at = "first"
  /\ contract_details_queue # <<>>
  /\ LET q_req_id == Head(contract_details_queue)[1]
         details == Head(contract_details_queue)[2]
     IN  IF q_req_id # rcd.req_id[1]
         THEN \* "unexpected reqId": return None
              /\ rcd' = [rcd EXCEPT !.at = "returned", !.result = None]
              /\ pc' = "resolved"
         ELSE /\ rcd' = [rcd EXCEPT !.at = "drain", !.details = details]
              /\ pc' = pc
  /\ contract_details_queue' = Tail(contract_details_queue)
  /\ UNCHANGED <<unit, gexVars, engineVars, sessionVars, queueVars, gw>>

\* resolve_contract_details, the "while True" loop: one get that returns an
\* item; the loop is left on the first item whose id is the request's
ResolveDrainGet ==
  /\ pc = "resolve_wait"
  /\ rcd.at = "drain"
  /\ contract_details_queue # <<>>
  /\ LET end_req_id == Head(contract_details_queue)[1]
     IN  IF end_req_id = rcd.req_id[1]
         THEN /\ rcd' = [rcd EXCEPT !.at = "returned", !.result = rcd.details]
              /\ pc' = "resolved"
         ELSE UNCHANGED <<rcd, pc>>
  /\ contract_details_queue' = Tail(contract_details_queue)
  /\ UNCHANGED <<unit, gexVars, engineVars, sessionVars, queueVars, gw>>

\* resolve_contract_details, "except Empty": 10 s without an item
ResolveTimeout ==
  /\ pc = "resolve_wait"
  /\ rcd.at \in {"first", "drain"}
  /\ contract_details_queue = <<>>
  /\ rcd' = [rcd EXCEPT !.at = "returned", !.result = None]
  /\ pc' = "resolved"
  /\ UNCHANGED <<unit, gexVars, engineVars, sessionVars, queueVars, contract_details_queue, gw>>

\* historicalData / historicalDataEnd for a token that is not the request's
GwForeignHistoricalData ==
  /\ gw.hist_req # None /\ client_isConnected
  /\ gw.foreign < MaxForeign
  /\ can_put(historical_data_queue)
  /\ \E data \in {None} \cup {Some(bar) : bar \in HistBars} :
       historical_data_queue' =
         put(historical_data_queue, <<OtherToken(gw.hist_req[1]), data>>)
  /\ gw' = [gw EXCEPT !.foreign = @ + 1]
  /\ UNCHANGED <<callVars, pc, engineVars, sessionVars, next_valid_id_queue,
                 realtime_bar_queue, error_queue>>

\* The engine right after a successful connect, or right after a breakout
\* signal ended the monitoring stage.
WaitsInit ==
  /\ pc = "loop"
  /\ is_connected = TRUE
  /\ client_isConnected = TRUE
  /\ next_order_id \in {Some(v) : v \in FirstOrderIds}
  /\ gex_next_req_id = GexReqIdBase
  /\ rt_bars_req_id = None
  /\ bars_received = <<>>
  /\ five_second_bars = <<>>
  /\ highest_gex_strike = 0
  /\ option_expiration = None
  /\ next_valid_id_queue = <<>>
  /\ historical_data_queue = <<>>
  /\ realtime_bar_queue = <<>>
  /\ error_queue = <<>>
  /\ place_trade_calls = 0
  /\ contract_details_queue = <<>>
  /\ rcd = [at |-> "idle", req_id |-> None, details |-> None, result |-> None]
  /\ unit = NoUnit
  /\ tick_price_queue = <<>>
  /\ option_computation_queue = <<>>
  /\ tick_size_queue = <<>>
  /\ sec_def_opt_params_queue = <<>>
  /\ gex = NoGex
  /\ \/ /\ state = "GETTING_OPENING_RANGE"
        /\ next_req_id = 0
        /\ orb_bars = <<>>
        /\ orb_high = 0
        /\ orb_low = 0
        /\ breakout_signal = None
        /\ spot_price = 0
        /\ client_log = << Call("connect", 0) >>
        /\ gw = [connect_failures |-> 0, lost_in |-> None, hist_req |-> None,
                 hist_bars |-> 0, hist_done |-> FALSE, rt_bars |-> 0,
                 timeouts |-> 0, cd_rows |-> 0, cd_done |-> FALSE,
                 foreign |-> 0, ticks |-> {}]
     \/ /\ state = "ANALYZING_GEX"
        /\ next_req_id = 2
        /\ orb_bars = << [timestamp |-> MarketOpenMinute, high |-> 5, low |-> 4] >>
        /\ orb_high = 5
        /\ orb_low = 4
        /\ breakout_signal = Some(Signal("BUY", Some(8)))
        /\ spot_price = 8
        /\ client_log = << Call("connect", 0), Call("reqHistoricalData", 1),
                           Call("reqRealTimeBars", 2),
                           Call("cancelRealTimeBars", 2) >>
        /\ gw = [connect_failures |-> 0, lost_in |-> None, hist_req |-> Some(1),
                 hist_bars |-> 1, hist_done |-> TRUE, rt_bars |-> 2,
                 timeouts |-> 0, cd_rows |-> 0, cd_done |-> FALSE,
                 foreign |-> 0, ticks |-> {}]

WaitsNext ==
  \/ StateGetOpeningRange
  \/ GwHistoricalData
  \/ GwHistoricalDataEnd
  \/ GwForeignHistoricalData
  \/ HistGet
  \/ HistTimeout
  \/ ResolveCall
  \/ GwContractDetails
  \/ GwContractDetailsEnd
  \/ GwForeignContractDetails
  \/ ResolveFirstGet
  \/ ResolveDrainGet
  \/ ResolveTimeout

SpecWaits == WaitsInit /\ [][WaitsNext]_vars

\* ------------------------------------------- the strategies on their own
\* An OpeningRangeStrategy or a BreakoutStrategy built as the engine builds
\* it and called directly, as the tests of the repository do.

\* bars offered to the collector: before the open, on it, in the last minute
\* of the window, on its end, and on the open of the next day
UnitBars ==
  { [timestamp |-> t, high |-> p[1], low |-> p[2]] :
      t \in { MarketOpenMinute - 1, MarketOpenMinute,
              MarketOpenMinute + DurationMinutes - 1,
              MarketOpenMinute + DurationMinutes, 1440 + MarketOpenMinute },
      p \in { <<5, 4>>, <<9, 8>>, <<3, 1>> } }

\* OpeningRangeStrategy.__init__
OpeningRangeUnit == [fn |-> "opening_range", call |-> "__init__", ret |-> None]

\* OpeningRangeStrategy.add_bar called with a bar; bars_received keeps the
\* bars offered so far
OrbAddBar ==
  /\ unit.fn = "opening_range"
  /\ Len(bars_received) < MaxUnitBars
  /\ \E bar \in UnitBars :
       /\ bars_received' = Append(bars_received, bar)
       /\ orb_bars' = add_bar(orb_bars, bar)
       /\ unit' = [unit EXCEPT !.call = "add_bar",
                               !.ret = Some(is_bar_valid(bar))]
  /\ UNCHANGED <<pc, state, next_req_id, rt_bars_req_id, orb_high, orb_low,
                 five_second_bars, breakout_signal, spot_price,
                 highest_gex_strike, option_expiration, gex_next_req_id,
                 place_trade_calls, sessionVars, queueVars,
                 contract_details_queue, rcd, gexVars, gw>>

\* OpeningRangeStrategy.calculate_levels called
OrbCalculateLevels ==
  /\ unit.fn = "opening_range"
  /\ unit' = [unit EXCEPT !.call = "calculate_levels",
                          !.ret = Some(calculate_levels(orb_bars))]
  /\ UNCHANGED <<pc, engineVars, sessionVars, queueVars,
                 contract_details_queue, rcd, gexVars, gw>>

\* BreakoutStrategy.__init__ for the engine's aggregation period and for the
\* 60 s period of the tests' fixture; the levels the calls are made with lie
\* between the two shapes of RtShapes
BreakoutUnits ==
  { [fn |-> "breakout", aggregation_seconds |-> p, high_level |-> 5,
     low_level |-> 4, call |-> "__init__", calls |-> 0, arg |-> None,
     ret |-> None] : p \in {AggregationSeconds, 60} }

\* timestamps a next sub-bar may carry: the first on midnight, 5 s after it
\* or on the minute after it, a later one 5 s after the last or a full
\* minute after it
NextTimestamps(last) ==
  IF last = None THEN {0, SubBarSeconds, 60}
  ELSE {last[1].timestamp + SubBarSeconds, last[1].timestamp + 60}

\* BreakoutStrategy.add_realtime_bar called with a sub-bar and the levels
BreakoutAddBar ==
  /\ unit.fn = "breakout"
  /\ unit.calls < MaxUnitCalls
  /\ \E shape \in RtShapes, ts \in NextTimestamps(unit.arg) :
       LET bar == [timestamp |-> ts, open |-> shape.open, high |-> shape.high,
                   low |-> shape.low, close |-> shape.close,
                   volume |-> shape.volume]
           r == add_realtime_bar_in(unit.aggregation_seconds, five_second_bars,
                                    bar, unit.high_level, unit.low_level)
       IN  /\ five_second_bars' = r.buf
           /\ unit' = [unit EXCEPT !.call = "add_realtime_bar",
                                   !.calls = @ + 1,
                                   !.arg = Some(bar),
                                   !.ret = Some(r.signal)]
  /\ UNCHANGED <<pc, state, next_req_id, rt_bars_req_id, orb_bars,
                 bars_received, orb_high, orb_low, breakout_signal, spot_price,
                 highest_gex_strike, option_expiration, gex_next_req_id,
                 place_trade_calls, sessionVars, queueVars,
                 contract_details_queue, rcd, gexVars, gw>>

\* a BreakoutStrategy whose check_breakout is called directly
CheckBreakoutUnit ==
  [fn |-> "check_breakout", high_level |-> 5, low_level |-> 4,
   call |-> "__init__", arg |-> None, ret |-> None]

\* candles around the levels: every open, high, low and close from one
\* below the low level to one above the high level
UnitCandles ==
  LET prices == (CheckBreakoutUnit.low_level - 1) .. (CheckBreakoutUnit.high_level + 1)
  IN  { [timestamp |-> 0, open |-> o, high |-> h, low |-> l, close |-> c,
         volume |-> 1] : o \in prices, h \in prices, l \in prices, c \in prices }

\* BreakoutStrategy.check_breakout called with a candle and the levels
CheckBreakout ==
  /\ unit.fn = "check_breakout"
  /\ \E candle \in UnitCandles :
       unit' = [unit EXCEPT !.call = "check_breakout",
                            !.arg = Some(candle),
                            !.ret = Some(check_breakout(candle, unit.high_level,
                                                        unit.low_level))]
  /\ UNCHANGED <<pc, engineVars, sessionVars, queueVars,
                 contract_details_queue, rcd, gexVars, gw>>

StrategyInit ==
  Constructed /\ unit \in {OpeningRangeUnit, CheckBreakoutUnit} \cup BreakoutUnits

StrategyNext ==
  \/ OrbAddBar
  \/ OrbCalculateLevels
  \/ BreakoutAddBar
  \/ CheckBreakout

SpecStrategy == StrategyInit /\ [][StrategyNext]_vars

\* BreakoutStrategy.__init__ for a period longer than a minute: 65 s, whose
\* candle takes thirteen sub-bars
LongPeriodUnits ==
  { [fn |-> "breakout", aggregation_seconds |-> p, high_level |-> 5,
     low_level |-> 4, call |-> "__init__", calls |-> 0, arg |-> None,
     ret |-> None] : p \in {60 + SubBarSeconds} }

LongPeriodInit == Constructed /\ unit \in LongPeriodUnits

LongPeriodNext == BreakoutAddBar

SpecLongPeriod == LongPeriodInit /\ [][LongPeriodNext]_vars

\* ------------------------------------------- the gamma analysis, step by step
\* GEXAnalyzer.find_and_calculate_gex taken wait by wait, with the gateway's
\* tick callbacks interleaved. Expirations are "YYYYMMDD" strings, dates are
\* day numbers counted from 2024-01-01.

\* gex.strikes_quantity, gex.option_multiplier and gex.days_to_expiration of
\* the configuration
StrikesQuantity == 2 * (MaxStrikes - 1)
OptionMultiplier == 100
DaysToExpiration == 0

\* tick types of the gateway: last trade, previous close, bid, open interest
\* (IBWrapper.tickSize: "TickType 27 is specifically Open Interest")
TickLast == 4
TickClose == 9
TickBid == 1
TickOpenInterest == 27
\* the option-computation tick that carries the model's greeks
TickModelOption == 13

\* the expiration strings the gateway may list, in the order sorted() gives
ExpirationStrings == << "20240104", "20240105", "20240108" >>

\* datetime.strptime(exp_str, "%Y%m%d").date()
strptime_date(exp_str) ==
  CASE exp_str = "20240104" -> 3
    [] exp_str = "20240105" -> 4
    [] exp_str = "20240108" -> 7

\* date.today() on the day of the run
Today == 4

RECURSIVE SortedSeq(_)
\* sorted(list(S)) for a set of numbers
SortedSeq(S) ==
  IF S = {} THEN <<>>
  ELSE LET m == CHOOSE x \in S : \A y \in S : x <= y
       IN  <<m>> \o SortedSeq(S \ {m})

\* sorted(list(S)) for a set of expiration strings
SortedExpirations(S) ==
  LET keep(i) == ExpirationStrings[i] \in S
      RECURSIVE from(_)
      from(i) == IF i > Len(ExpirationStrings) THEN <<>>
                 ELSE (IF keep(i) THEN <<ExpirationStrings[i]>> ELSE <<>>)
                      \o from(i + 1)
  IN  from(1)

\* GEXAnalyzer._get_option_parameters after its stream ended with the merged
\* sets all_expirations and all_strikes: (None, None) or the sorted lists
option_parameters(all_expirations, all_strikes) ==
  IF all_strikes = {}
  THEN [expirations |-> None, strikes |-> None]
  ELSE [expirations |-> Some(SortedExpirations(all_expirations)),
        strikes |-> Some(SortedSeq(all_strikes))]

\* an expiration search that settles for the first date on or after the
\* target
find_target_expiration_nearest(days_to_expiration, expirations) ==
  LET target_date == Today + days_to_expiration
      hits == { i \in 1..Len(expirations) :
                  strptime_date(expirations[i]) >= target_date }
  IN  IF hits = {} THEN None
      ELSE Some(expirations[CHOOSE i \in hits : \A j \in hits : i <= j])

\* GEXAnalyzer._find_target_expiration
find_target_expiration(days_to_expiration, expirations) ==
  LET target_date == Today + days_to_expiration
      hits == { i \in 1..Len(expirations) :
                  strptime_date(expirations[i]) = target_date }
  IN  IF hits = {} THEN None
      ELSE Some(expirations[CHOOSE i \in hits : \A j \in hits : i <= j])

Abs(x) == IF x < 0 THEN -x ELSE x
Max2(a, b) == IF a >= b THEN a ELSE b
Min2(a, b) == IF a <= b THEN a ELSE b

\* the index (from 0) Python's min(range(len(strikes)), key=...) gives: the
\* first index whose strike is nearest the spot price
closest_strike_index(strikes, spot) ==
  LET best == { i \in 1..Len(strikes) :
                  \A j \in 1..Len(strikes) :
                    Abs(strikes[i] - spot) <= Abs(strikes[j] - spot) }
  IN  (CHOOSE i \in best : \A j \in best : i <= j) - 1

\* GEXAnalyzer._filter_strikes for a non-empty sorted list: the slice
\* strikes[start_index:end_index]
filter_strikes(strikes_quantity, strikes, spot) ==
  LET half_quantity == strikes_quantity \div 2
      closest == closest_strike_index(strikes, spot)
      start_index == Max2(0, closest - half_quantity)
      end_index == Min2(Len(strikes), closest + half_quantity)
  IN  SubSeq(strikes, start_index + 1, end_index)

\* one leg's exposure in _calculate_gex_for_strikes: gamma * oi * multiplier
\* when both are truthy, else 0
leg_gex(gamma, oi) ==
  IF gamma # 0 /\ oi # 0 THEN gamma * oi * OptionMultiplier ELSE 0

\* a strike exposure that adds the put leg
total_gex_sum(call_data, put_data) ==
  leg_gex(call_data[1], call_data[2]) + leg_gex(put_data[1], put_data[2])

\* total_gex of a strike from the (gamma, oi) pairs of its call and its put
total_gex(call_data, put_data) ==
  leg_gex(call_data[1], call_data[2]) - leg_gex(put_data[1], put_data[2])

\* a selection that takes the last of the strikes with the largest |gex|
highest_gex_strike_last(gex_results) ==
  LET best == { i \in 1..Len(gex_results) :
                  \A j \in 1..Len(gex_results) :
                    Abs(gex_results[i].gex) >= Abs(gex_results[j].gex) }
  IN  gex_results[CHOOSE i \in best : \A j \in best : i >= j].strike

\* max(gex_per_strike, key=lambda k: abs(gex_per_strike[k])) over the dict
\* in insertion order: the first key whose |gex| is the largest
highest_gex_strike_of(gex_results) ==
  LET best == { i \in 1..Len(gex_results) :
                  \A j \in 1..Len(gex_results) :
                    Abs(gex_results[i].gex) >= Abs(gex_results[j].gex) }
  IN  gex_results[CHOOSE i \in best : \A j \in best : i <= j].strike

\* values a tick may carry
GammaValues == {1, 2}
OpenInterestValues == {3}
TickPrices == [t \in {TickLast, TickClose, TickBid} |->
                 CASE t = TickLast -> 8 [] t = TickClose -> 7 [] OTHER -> 6]

\* what securityDefinitionOptionParameter delivered in all, merged: nothing,
\* a chain without today's expiration, a chain with it
OptionChains ==
  { [expirations |-> {}, strikes |-> {}],
    [expirations |-> {"20240104", "20240108"},
     strikes |-> {StrikeAt(i) : i \in 1..(MaxStrikes + 1)}],
    [expirations |-> {"20240104", "20240105", "20240108"},
     strikes |-> {StrikeAt(i) : i \in 1..(MaxStrikes + 1)}] }

\* tokens of the market-data subscriptions opened and not yet cancelled
MktDataOpen(log) ==
  { log[i].id : i \in { j \in 1..Len(log) : log[j].op = "reqMktData" } }
  \ { log[i].id : i \in { j \in 1..Len(log) : log[j].op = "cancelMktData" } }

\* the variables no step of the analysis writes
analysisFixed ==
  <<next_req_id, rt_bars_req_id, orb_bars, bars_received, orb_high, orb_low,
    five_second_bars, breakout_signal, spot_price, place_trade_calls,
    is_connected, client_isConnected, queueVars, contract_details_queue, rcd,
    unit>>

\* find_and_calculate_gex returns result, its locals are gone (the records
\* it selected from are kept for reference), and Engine._state_analyze_gex
\* acts on the result
GexReturn(gex_per_strike, result) ==
  /\ gex' = [NoGex EXCEPT !.at = "returned", !.gex_results = gex_per_strike,
                          !.result = result]
  /\ state' = state_after_gex(result)
  /\ IF result # None
     THEN /\ highest_gex_strike' = result[1][1]
          /\ option_expiration' = Some(result[1][2])
     ELSE UNCHANGED <<highest_gex_strike, option_expiration>>
  /\ pc' = "loop"

\* _calculate_gex_for_strikes at the head of its for loop, frame.strike
\* strikes done, log the calls made and n the token counter so far: the next
\* strike's two subscriptions are opened, or the loop ends and
\* find_and_calculate_gex selects the strike
GexLoop(frame, log, n) ==
  IF frame.strike < Len(frame.strikes)
  THEN LET call_req_id == gex_get_next_req_id(n)
           put_req_id == gex_get_next_req_id(call_req_id)
       IN  /\ client_log' = log \o << Call("reqMktData", call_req_id),
                                      Call("reqMktData", put_req_id) >>
           /\ gex_next_req_id' = put_req_id
           /\ gex' = [frame EXCEPT !.at = "poll_computation",
                                   !.strike = @ + 1,
                                   !.call_req_id = Some(call_req_id),
                                   !.put_req_id = Some(put_req_id),
                                   !.leg = "call",
                                   !.gamma = None,
                                   !.open_interest = None,
                                   !.call = None]
           /\ pc' = "gex"
           /\ UNCHANGED <<state, highest_gex_strike, option_expiration>>
  ELSE /\ client_log' = log
       /\ gex_next_req_id' = n
       /\ GexReturn(frame.gex_results,
                    IF frame.gex_results = <<>> THEN None
                    ELSE Some(<< highest_gex_strike_of(frame.gex_results),
                                 frame.expiration[1] >>))

\* the gateway after the open subscriptions were cancelled: gw.ticks holds
\* what it has sent for the subscriptions now open
GwCancelled == [gw EXCEPT !.ticks = {}]

\* a cancel that never reaches the gateway client
cancel_market_data_dropped(log, req_id) == log

\* IBConnector.cancel_market_data
cancel_market_data(log, req_id) == Append(log, Call("cancelMktData", req_id))

\* a clean-up that cancels the call's subscription only
cancel_strike_call_only(log, frame) ==
  cancel_market_data(log, frame.call_req_id[1])

\* the finally block of one strike: both subscriptions cancelled
cancel_strike(log, frame) ==
  cancel_market_data(cancel_market_data(log, frame.call_req_id[1]),
                     frame.put_req_id[1])

\* Engine._state_analyze_gex entering find_and_calculate_gex, step 1: the
\* underlying is resolved by resolve_contract_details, or is not
GexResolve ==
  /\ pc = "loop"
  /\ state = "ANALYZING_GEX"
  /\ gex.at = "idle"
  /\ LET oid == get_next_order_id(next_order_id)
     IN  /\ next_order_id' = oid.next
         /\ \E resolved \in BOOLEAN :
              /\ resolved => client_isConnected
              /\ IF resolved
                 THEN /\ gex' = [gex EXCEPT !.at = "params"]
                      /\ pc' = "gex"
                      /\ UNCHANGED <<state, highest_gex_strike,
                                     option_expiration>>
                 ELSE GexReturn(<<>>, None)
         /\ client_log' = Append(client_log, Call("reqContractDetails", oid.id))
  /\ UNCHANGED <<analysisFixed, gex_next_req_id, tick_price_queue,
                 option_computation_queue, tick_size_queue,
                 sec_def_opt_params_queue, gw>>

\* steps 2 and 3, and the request of step 4: _get_option_parameters with
\* what its stream delivered, _find_target_expiration, and the reqMktData
\* of _get_underlying_spot_price
GexOptionParameters ==
  /\ pc = "gex"
  /\ gex.at = "params"
  /\ \E chain \in OptionChains, ended \in BOOLEAN :
       /\ ended => client_isConnected
       /\ LET req_id == gex_get_next_req_id(gex_next_req_id)
              log1 == Append(client_log, Call("reqSecDefOptParams", req_id))
              params == IF ended
                        THEN option_parameters(chain.expirations, chain.strikes)
                        ELSE [expirations |-> None, strikes |-> None]
              target_expiration ==
                IF params.expirations = None THEN None
                ELSE find_target_expiration(DaysToExpiration,
                                            params.expirations[1])
              spot_req_id == gex_get_next_req_id(req_id)
          IN  IF \/ params.expirations \in {None, Some(<<>>)}
                 \/ params.strikes \in {None, Some(<<>>)}
                 \/ target_expiration = None
              THEN /\ client_log' = log1
                   /\ gex_next_req_id' = req_id
                   /\ GexReturn(<<>>, None)
              ELSE /\ client_log' = Append(log1, Call("reqMktData", spot_req_id))
                   /\ gex_next_req_id' = spot_req_id
                   /\ gex' = [gex EXCEPT !.at = "spot_wait",
                                         !.expiration = target_expiration,
                                         !.strikes = params.strikes[1],
                                         !.req_id = Some(spot_req_id)]
                   /\ pc' = "gex"
                   /\ UNCHANGED <<state, highest_gex_strike, option_expiration>>
  /\ UNCHANGED <<analysisFixed, next_order_id, tick_price_queue,
                 option_computation_queue, tick_size_queue,
                 sec_def_opt_params_queue, gw>>

\* IBWrapper.tickPrice on the receive thread, for the spot subscription
GwTickPrice ==
  /\ client_isConnected
  /\ gex.at = "spot_wait"
  /\ can_put(tick_price_queue)
  /\ \E tickType \in DOMAIN TickPrices :
       /\ <<gex.req_id[1], tickType>> \notin gw.ticks
       /\ tick_price_queue' =
            put(tick_price_queue,
                <<gex.req_id[1], tickType, TickPrices[tickType], "attrib">>)
       /\ gw' = [gw EXCEPT !.ticks = @ \cup {<<gex.req_id[1], tickType>>}]
  /\ UNCHANGED <<pc, engineVars, sessionVars, queueVars, contract_details_queue,
                 rcd, unit, option_computation_queue, tick_size_queue,
                 sec_def_opt_params_queue, gex>>

\* _get_underlying_spot_price, one get_nowait that returns a tick: a last or
\* close tick of the request ends the fetch (finally: cancel), and
\* find_and_calculate_gex goes on to filter the strikes and start the loop
SpotPoll ==
  /\ pc = "gex"
  /\ gex.at = "spot_wait"
  /\ tick_price_queue # <<>>
  /\ LET q_req_id == Head(tick_price_queue)[1]
         tick_type == Head(tick_price_queue)[2]
         price == Head(tick_price_queue)[3]
     IN  IF q_req_id = gex.req_id[1] /\ tick_type \in {TickLast, TickClose}
         THEN /\ GexLoop([gex EXCEPT !.spot_price = Some(price),
                                     !.strikes =
                                       filter_strikes(StrikesQuantity,
                                                      gex.strikes, price),
                                     !.strike = 0],
                         cancel_market_data(client_log, gex.req_id[1]),
                         gex_next_req_id)
              /\ gw' = GwCancelled
         ELSE UNCHANGED <<pc, state, highest_gex_strike, option_expiration,
                          client_log, gex_next_req_id, gex, gw>>
  /\ tick_price_queue' = Tail(tick_price_queue)
  /\ UNCHANGED <<analysisFixed, next_order_id, option_computation_queue,
                 tick_size_queue,
                 sec_def_opt_params_queue>>

\* _get_underlying_spot_price, 10 s without a usable tick: None is returned
\* (finally: cancel) and the analysis fails
SpotTimeout ==
  /\ pc = "gex"
  /\ gex.at = "spot_wait"
  /\ tick_price_queue = <<>>
  /\ client_log' = cancel_market_data(client_log, gex.req_id[1])
  /\ GexReturn(<<>>, None)
  /\ gw' = GwCancelled
  /\ UNCHANGED <<analysisFixed, next_order_id, gex_next_req_id,
                 tick_price_queue, option_computation_queue, tick_size_queue,
                 sec_def_opt_params_queue>>

\* the token _get_option_data is waiting for
leg_req_id(frame) ==
  IF frame.leg = "call" THEN frame.call_req_id[1] ELSE frame.put_req_id[1]

\* IBWrapper.tickOptionComputation on the receive thread, for an open
\* subscription of the current strike
GwTickOptionComputation ==
  /\ client_isConnected
  /\ gex.at \in {"poll_computation", "poll_size"}
  /\ can_put(option_computation_queue)
  /\ \E reqId \in {gex.call_req_id[1], gex.put_req_id[1]}, gamma \in GammaValues :
       /\ <<reqId, TickModelOption>> \notin gw.ticks
       /\ option_computation_queue' =
            put(option_computation_queue,
                <<reqId, [tickType |-> TickModelOption, gamma |-> gamma]>>)
       /\ gw' = [gw EXCEPT !.ticks = @ \cup {<<reqId, TickModelOption>>}]
  /\ UNCHANGED <<pc, engineVars, sessionVars, queueVars, contract_details_queue,
                 rcd, unit, tick_price_queue, tick_size_queue,
                 sec_def_opt_params_queue, gex>>

\* IBWrapper.tickSize on the receive thread: the open interest of an open
\* subscription of the current strike
GwTickSize ==
  /\ client_isConnected
  /\ gex.at \in {"poll_computation", "poll_size"}
  /\ can_put(tick_size_queue)
  /\ \E reqId \in {gex.call_req_id[1], gex.put_req_id[1]},
        size \in OpenInterestValues :
       /\ <<reqId, TickOpenInterest>> \notin gw.ticks
       /\ tick_size_queue' =
            put(tick_size_queue, <<reqId, TickOpenInterest, size>>)
       /\ gw' = [gw EXCEPT !.ticks = @ \cup {<<reqId, TickOpenInterest>>}]
  /\ UNCHANGED <<pc, engineVars, sessionVars, queueVars, contract_details_queue,
                 rcd, unit, tick_price_queue, option_computation_queue,
                 sec_def_opt_params_queue, gex>>

\* _get_option_data, first half of one pass of its while loop: the
\* option-computation queue is read if it is not empty
PollOptionComputation ==
  /\ pc = "gex"
  /\ gex.at = "poll_computation"
  /\ IF option_computation_queue # <<>>
     THEN LET comp_req_id == Head(option_computation_queue)[1]
              data == Head(option_computation_queue)[2]
          IN  /\ option_computation_queue' = Tail(option_computation_queue)
              /\ gex' = [gex EXCEPT
                           !.at = "poll_size",
                           !.gamma = IF comp_req_id = leg_req_id(gex)
                                     THEN Some(data.gamma) ELSE @]
     ELSE /\ gex' = [gex EXCEPT !.at = "poll_size"]
          /\ UNCHANGED option_computation_queue
  /\ UNCHANGED <<pc, engineVars, sessionVars, queueVars, contract_details_queue,
                 rcd, unit, tick_price_queue, tick_size_queue,
                 sec_def_opt_params_queue, gw>>

\* _get_option_data, second half of the pass: the tick-size queue is read if
\* it is not empty, and the data is returned once gamma and open interest
\* are both known. The call's data is kept and the put is waited for; the
\* put's data gives the strike's record (finally: both cancelled) and the
\* loop goes on
PollTickSize ==
  /\ pc = "gex"
  /\ gex.at = "poll_size"
  /\ LET item == Head(tick_size_queue)
         open_interest ==
           IF tick_size_queue # <<>> /\ item[1] = leg_req_id(gex)
              /\ item[2] = TickOpenInterest
           THEN Some(item[3]) ELSE gex.open_interest
     IN  /\ tick_size_queue' = IF tick_size_queue # <<>>
                               THEN Tail(tick_size_queue) ELSE tick_size_queue
         /\ IF gex.gamma = None \/ open_interest = None
            THEN /\ gex' = [gex EXCEPT !.at = "poll_computation",
                                       !.open_interest = open_interest]
                 /\ UNCHANGED <<pc, state, highest_gex_strike, gw,
                                option_expiration, client_log, gex_next_req_id>>
            ELSE IF gex.leg = "call"
            THEN /\ gex' = [gex EXCEPT
                              !.at = "poll_computation",
                              !.leg = "put",
                              !.call = Some(<<gex.gamma[1], open_interest[1]>>),
                              !.gamma = None,
                              !.open_interest = None]
                 /\ UNCHANGED <<pc, state, highest_gex_strike, gw,
                                option_expiration, client_log, gex_next_req_id>>
            ELSE /\ gw' = GwCancelled
                 /\ GexLoop([gex EXCEPT
                               !.open_interest = open_interest,
                               !.gex_results =
                                 Append(@, [strike |-> gex.strikes[gex.strike],
                                            gex |-> total_gex(
                                                      gex.call[1],
                                                      <<gex.gamma[1],
                                                        open_interest[1]>>)])],
                            cancel_strike(client_log, gex), gex_next_req_id)
  /\ UNCHANGED <<analysisFixed, next_order_id, tick_price_queue,
                 option_computation_queue, sec_def_opt_params_queue>>

\* a timeout of one strike that ends the analysis without a result
OptionTimeout_fatal ==
  /\ pc = "gex"
  /\ gex.at = "poll_computation"
  /\ option_computation_queue = <<>> /\ tick_size_queue = <<>>
  /\ client_log' = cancel_strike(client_log, gex)
  /\ GexReturn(<<>>, None)
  /\ gw' = GwCancelled
  /\ UNCHANGED <<analysisFixed, next_order_id, gex_next_req_id,
                 tick_price_queue, option_computation_queue, tick_size_queue,
                 sec_def_opt_params_queue>>

\* _get_option_data, 10 s of passes without the full data: TimeoutError,
\* caught in _calculate_gex_for_strikes, which leaves the strike without a
\* record (finally: both cancelled) and goes on
OptionTimeout ==
  /\ pc = "gex"
  /\ gex.at = "poll_computation"
  /\ option_computation_queue = <<>> /\ tick_size_queue = <<>>
  /\ GexLoop(gex, cancel_strike(client_log, gex), gex_next_req_id)
  /\ gw' = GwCancelled
  /\ UNCHANGED <<analysisFixed, next_order_id, tick_price_queue,
                 option_computation_queue, tick_size_queue,
                 sec_def_opt_params_queue>>

\* KeyboardInterrupt inside a wait of the analysis: the finally block of the
\* wait cancels what it opened and the exception leaves the analysis (its
\* locals are gone) and the while loop of Engine.run
GexInterrupt ==
  /\ pc = "gex"
  /\ gex.at \in {"spot_wait", "poll_computation", "poll_size"}
  /\ client_log' = IF gex.at = "spot_wait"
                   THEN cancel_market_data(client_log, gex.req_id[1])
                   ELSE cancel_strike(client_log, gex)
  /\ gex' = [NoGex EXCEPT !.at = "interrupted"]
  /\ pc' = "finally"
  /\ gw' = GwCancelled
  /\ UNCHANGED <<analysisFixed, state, highest_gex_strike, option_expiration,
                 next_order_id, gex_next_req_id, tick_price_queue,
                 option_computation_queue, tick_size_queue,
                 sec_def_opt_params_queue>>

\* The engine right after a breakout signal ended the monitoring stage.
GammaInit ==
  /\ pc = "loop"
  /\ state = "ANALYZING_GEX"
  /\ is_connected = TRUE
  /\ client_isConnected = TRUE
  /\ next_order_id = Some(1)
  /\ next_req_id = 2
  /\ gex_next_req_id = GexReqIdBase
  /\ rt_bars_req_id = None
  /\ orb_bars = << [timestamp |-> MarketOpenMinute, high |-> 5, low |-> 4] >>
  /\ bars_received = <<>>
  /\ orb_high = 5
  /\ orb_low = 4
  /\ five_second_bars = <<>>
  /\ \E signal \in {Signal("BUY", Some(8)), Signal("SELL", Some(1))} :
       /\ breakout_signal = Some(signal)
       /\ spot_price = signal.price[1]
  /\ highest_gex_strike = 0
  /\ option_expiration = None
  /\ next_valid_id_queue = <<>>
  /\ historical_data_queue = <<>>
  /\ realtime_bar_queue = <<>>
  /\ error_queue = <<>>
  /\ client_log = << Call("connect", 0), Call("reqHistoricalData", 1),
                     Call("reqRealTimeBars", 2), Call("cancelRealTimeBars", 2) >>
  /\ place_trade_calls = 0
  /\ contract_details_queue = <<>>
  /\ rcd = [at |-> "idle", req_id |-> None, details |-> None, result |-> None]
  /\ unit = NoUnit
  /\ tick_price_queue = <<>>
  /\ option_computation_queue = <<>>
  /\ tick_size_queue = <<>>
  /\ sec_def_opt_params_queue = <<>>
  /\ gex = NoGex
  /\ gw = [connect_failures |-> 0, lost_in |-> None, hist_req |-> Some(1),
           hist_bars |-> 1, hist_done |-> TRUE, rt_bars |-> BarsToAggregate,
           timeouts |-> 0, cd_rows |-> 0, cd_done |-> FALSE, foreign |-> 0,
           ticks |-> {}]

GammaNext ==
  \/ GexResolve
  \/ GexOptionParameters
  \/ GwTickPrice
  \/ SpotPoll
  \/ SpotTimeout
  \/ GwTickOptionComputation
  \/ GwTickSize
  \/ PollOptionComputation
  \/ PollTickSize
  \/ OptionTimeout
  \/ GexInterrupt
  \/ StateExecuteTrade
  \/ LoopExit
  \/ RunFinally
  \/ MainFinally

SpecGamma == GammaInit /\ [][GammaNext]_vars

\* --------------------------- the analysis with its option-chain stream
\* _get_option_parameters taken step by step: the gateway's receive thread
\* puts the rows of the stream and its end marker on
\* sec_def_opt_params_queue, the workflow thread takes them one by one. An
\* item is <<reqId, exchange, expirations, strikes>> for a row (the fields
\* the loop reads) and <<reqId, None>> for the end marker.

\* the frame of find_and_calculate_gex inside _get_option_parameters
ParamsWait(req_id, all_expirations, all_strikes) ==
  [at |-> "params_wait", expiration |-> None, spot_price |-> None,
   req_id |-> Some(req_id), strikes |-> <<>>, strike |-> 0,
   call_req_id |-> None, put_req_id |-> None, leg |-> "none", gamma |-> None,
   open_interest |-> None, call |-> None, gex_results |-> <<>>,
   result |-> None, all_expirations |-> all_expirations,
   all_strikes |-> all_strikes]

\* _get_option_parameters up to its loop: the token and the request
OptParamsRequest ==
  /\ pc = "gex"
  /\ gex.at = "params"
  /\ LET req_id == gex_get_next_req_id(gex_next_req_id)
     IN  /\ client_log' = Append(client_log, Call("reqSecDefOptParams", req_id))
         /\ gex_next_req_id' = req_id
         /\ gex' = ParamsWait(req_id, {}, {})
  /\ UNCHANGED <<analysisFixed, pc, state, highest_gex_strike, option_expiration,
                 next_order_id, tick_price_queue, option_computation_queue,
                 tick_size_queue, sec_def_opt_params_queue, gw>>

\* IBWrapper.securityDefinitionOptionParameter on the receive thread: one
\* more row of the stream of the pending request
GwSecDefOptParams ==
  /\ client_isConnected
  /\ gex.at = "params_wait"
  /\ Len(sec_def_opt_params_queue) < MaxParamsQueued
  /\ \E chain \in OptionChains :
       sec_def_opt_params_queue' =
         put(sec_def_opt_params_queue,
             <<gex.req_id[1], Some("SMART"), chain.expirations, chain.strikes>>)
  /\ UNCHANGED <<pc, engineVars, sessionVars, queueVars, contract_details_queue,
                 rcd, unit, tick_price_queue, option_computation_queue,
                 tick_size_queue, gex, gw>>

\* IBWrapper.securityDefinitionOptionParameterEnd on the receive thread
GwSecDefOptParamsEnd ==
  /\ client_isConnected
  /\ gex.at = "params_wait"
  /\ Len(sec_def_opt_params_queue) < MaxParamsQueued
  /\ sec_def_opt_params_queue' =
       put(sec_def_opt_params_queue, <<gex.req_id[1], None>>)
  /\ UNCHANGED <<pc, engineVars, sessionVars, queueVars, contract_details_queue,
                 rcd, unit, tick_price_queue, option_computation_queue,
                 tick_size_queue, gex, gw>>

\* one pass of the loop of _get_option_parameters in which the get returns
\* an item: a row is merged into the sets; the end marker ends the loop, and
\* find_and_calculate_gex goes on with _find_target_expiration and the
\* reqMktData of _get_underlying_spot_price
OptParamsGet ==
  /\ pc = "gex"
  /\ gex.at = "params_wait"
  /\ sec_def_opt_params_queue # <<>>
  /\ sec_def_opt_params_queue' = Tail(sec_def_opt_params_queue)
  /\ LET params == Head(sec_def_opt_params_queue)
     IN  IF params[1] = gex.req_id[1] /\ params[2] = None
         THEN LET found == option_parameters(gex.all_expirations, gex.all_strikes)
                  target_expiration ==
                    IF found.expirations = None THEN None
                    ELSE find_target_expiration(DaysToExpiration,
                                                found.expirations[1])
                  spot_req_id == gex_get_next_req_id(gex_next_req_id)
              IN  IF \/ found.expirations \in {None, Some(<<>>)}
                     \/ found.strikes \in {None, Some(<<>>)}
                     \/ target_expiration = None
                  THEN /\ GexReturn(<<>>, None)
                       /\ UNCHANGED <<client_log, gex_next_req_id>>
                  ELSE /\ client_log' =
                            Append(client_log, Call("reqMktData", spot_req_id))
                       /\ gex_next_req_id' = spot_req_id
                       /\ gex' = [NoGex EXCEPT !.at = "spot_wait",
                                               !.expiration = target_expiration,
                                               !.strikes = found.strikes[1],
                                               !.req_id = Some(spot_req_id)]
                       /\ UNCHANGED <<pc, state, highest_gex_strike,
                                      option_expiration>>
         ELSE /\ gex' = [gex EXCEPT !.all_expirations = @ \cup params[3],
                                    !.all_strikes = @ \cup params[4]]
              /\ UNCHANGED <<pc, state, highest_gex_strike, option_expiration,
                             client_log, gex_next_req_id>>
  /\ UNCHANGED <<analysisFixed, next_order_id, tick_price_queue,
                 option_computation_queue, tick_size_queue, gw>>

\* the loop of _get_option_parameters, "except Exception" on queue.Empty: 20 s
\* without an item
OptParamsTimeout ==
  /\ pc = "gex"
  /\ gex.at = "params_wait"
  /\ sec_def_opt_params_queue = <<>>
  /\ GexReturn(<<>>, None)
  /\ UNCHANGED <<analysisFixed, next_order_id, gex_next_req_id, client_log,
                 tick_price_queue, option_computation_queue, tick_size_queue,
                 sec_def_opt_params_queue, gw>>

\* _get_underlying_spot_price, the 10 s of its while loop used up while ticks
\* that are not the awaited one keep coming: None is returned (finally:
\* cancel) with ticks still on the queue
SpotDeadline ==
  /\ pc = "gex"
  /\ gex.at = "spot_wait"
  /\ tick_price_queue # <<>>
  /\ client_log' = cancel_market_data(client_log, gex.req_id[1])
  /\ GexReturn(<<>>, None)
  /\ gw' = GwCancelled
  /\ UNCHANGED <<analysisFixed, next_order_id, gex_next_req_id,
                 tick_price_queue, option_computation_queue, tick_size_queue,
                 sec_def_opt_params_queue>>

\* _get_option_data, the 10 s of its while loop used up while ticks keep
\* coming: TimeoutError with ticks still on the queues, the strike is left out
OptionDeadline ==
  /\ pc = "gex"
  /\ gex.at = "poll_computation"
  /\ option_computation_queue # <<>> \/ tick_size_queue # <<>>
  /\ GexLoop(gex, cancel_strike(client_log, gex), gex_next_req_id)
  /\ gw' = GwCancelled
  /\ UNCHANGED <<analysisFixed, next_order_id, tick_price_queue,
                 option_computation_queue, tick_size_queue,
                 sec_def_opt_params_queue>>

LiveNext ==
  \/ GexResolve
  \/ OptParamsRequest
  \/ GwSecDefOptParams
  \/ GwSecDefOptParamsEnd
  \/ OptParamsGet
  \/ OptParamsTimeout
  \/ GwTickPrice
  \/ SpotPoll
  \/ SpotTimeout
  \/ SpotDeadline
  \/ GwTickOptionComputation
  \/ GwTickSize
  \/ PollOptionComputation
  \/ PollTickSize
  \/ OptionTimeout
  \/ OptionDeadline
  \/ GexInterrupt
  \/ StateExecuteTrade
  \/ LoopExit
  \/ RunFinally
  \/ MainFinally

\* the workflow thread is scheduled fairly: a step of it that stays possible
\* is taken, and a loop that tests a deadline at each pass (the 10 s of the
\* spot fetch and of _get_option_data) leaves by it once time has passed,
\* however often the pass found something to read. Nothing is assumed of the
\* gateway or of the operator's interrupt.
LiveFairness ==
  /\ WF_vars(GexResolve)
  /\ WF_vars(OptParamsRequest)
  /\ WF_vars(OptParamsGet)
  /\ WF_vars(OptParamsTimeout)
  /\ WF_vars(SpotPoll)
  /\ WF_vars(SpotTimeout \/ SpotDeadline)
  /\ WF_vars(PollOptionComputation)
  /\ WF_vars(PollTickSize)
  /\ SF_vars(OptionTimeout \/ OptionDeadline)
  /\ WF_vars(StateExecuteTrade)
  /\ WF_vars(LoopExit)
  /\ WF_vars(RunFinally)
  /\ WF_vars(MainFinally)

SpecLive == GammaInit /\ [][LiveNext]_vars /\ LiveFairness

\* ------------------------------------- functions of the analysis, on their own
\* _filter_strikes, the selection of the strike and the order planner's
\* decision called directly, as the tests of the repository do.

\* GEXAnalyzer.__init__ with a strikes_quantity from 1 up
FilterUnits ==
  { [fn |-> "filter_strikes", strikes_quantity |-> q, call |-> "__init__",
     arg |-> None, ret |-> None] : q \in 1..(2 * MaxStrikes) }

\* sorted non-empty strike lists of a chain of up to four strikes, and spot
\* prices below, on, between and above them
UnitStrikeLists ==
  { SortedSeq(S) : S \in (SUBSET {StrikeAt(i) : i \in 1..(MaxStrikes + 2)}) \ {{}} }
UnitSpots == {0, 4, 8, 9, 14, 30}

\* GEXAnalyzer._filter_strikes called with a sorted list and a spot price
FilterStrikes ==
  /\ unit.fn = "filter_strikes"
  /\ \E strikes \in UnitStrikeLists, spot \in UnitSpots :
       unit' = [unit EXCEPT !.call = "_filter_strikes",
                            !.arg = Some(<<strikes, spot>>),
                            !.ret = Some(filter_strikes(unit.strikes_quantity,
                                                        strikes, spot))]
  /\ UNCHANGED <<pc, engineVars, sessionVars, queueVars,
                 contract_details_queue, rcd, gexVars, gw>>

\* the selection of step 9 of find_and_calculate_gex, on a dict of records
SelectUnit == [fn |-> "select", call |-> "__init__", arg |-> None, ret |-> None]

\* dicts of records as _calculate_gex_for_strikes builds them: strikes in
\* ascending order of insertion, over the strikes and exposures of the
\* repository's test
UnitRecords ==
  LET gexes == {-2000, 500, 1000, 2000}
      rec(k, g) == [strike |-> k, gex |-> g]
  IN  UNION { { <<rec(450, a)>>, <<rec(455, a)>>, <<rec(460, a)>> } : a \in gexes }
      \cup UNION { { <<rec(450, a), rec(455, b)>>, <<rec(450, a), rec(460, b)>>,
                     <<rec(455, a), rec(460, b)>> } : a \in gexes, b \in gexes }
      \cup { <<rec(450, a), rec(455, b), rec(460, c)>> :
               a \in gexes, b \in gexes, c \in gexes }

\* max(gex_per_strike, key=abs value) called on a dict of records
SelectStrike ==
  /\ unit.fn = "select"
  /\ \E records \in UnitRecords :
       unit' = [unit EXCEPT !.call = "max",
                            !.arg = Some(records),
                            !.ret = Some(highest_gex_strike_of(records))]
  /\ UNCHANGED <<pc, engineVars, sessionVars, queueVars,
                 contract_details_queue, rcd, gexVars, gw>>

\* OrderManager.__init__
PlaceTradeUnit ==
  [fn |-> "place_trade", call |-> "__init__", arg |-> None, ret |-> None]

\* OrderManager.place_trade called with a signal, the spot price 8 and a
\* strike below, on or above it; client_log takes the orders it places
PlaceTrade ==
  /\ unit.fn = "place_trade"
  /\ \E type \in {"BUY", "SELL", "HOLD"}, strike \in {7, 8, 9} :
       LET signal == Signal(type, IF type = "HOLD" THEN None ELSE Some(8))
           spot == 8
       IN  unit' = [unit EXCEPT
                      !.call = "place_trade",
                      !.arg = Some([signal |-> signal, spot_price |-> spot,
                                    highest_gamma_strike |-> strike]),
                      !.ret = Some([decision |->
                                      make_trade_decision(signal, spot, strike),
                                    outcome |->
                                      place_trade(signal, spot, strike)])]
  /\ UNCHANGED <<pc, engineVars, sessionVars, queueVars,
                 contract_details_queue, rcd, gexVars, gw>>

FunctionsInit ==
  Constructed /\ unit \in FilterUnits \cup {SelectUnit, PlaceTradeUnit}

FunctionsNext ==
  \/ FilterStrikes
  \/ SelectStrike
  \/ PlaceTrade

SpecFunctions == FunctionsInit /\ [][FunctionsNext]_vars

\* ------------------------------------------- the aggregator's reduction
\* 5-second bars with low <= high, open and close on the low or the high
SubBarShapes ==
  { [open |-> o, high |-> h, low |-> l, close |-> c, volume |-> v] :
      l \in 1..3, h \in 1..3, o \in 1..3, c \in 1..3, v \in {1, 2} }

\* buffers a BreakoutStrategy holds when _aggregate_bars is called: up to a
\* candle's worth of consecutive sub-bars (the empty buffer included)
SubBarBuffers ==
  LET shapes == { s \in SubBarShapes :
                    s.low <= s.high /\ s.open \in {s.low, s.high}
                                    /\ s.close \in {s.low, s.high} }
      stamped(f) == [i \in DOMAIN f |->
                       [timestamp |-> SubBarSeconds * (i - 1), open |-> f[i].open,
                        high |-> f[i].high, low |-> f[i].low,
                        close |-> f[i].close, volume |-> f[i].volume]]
  IN  UNION { { stamped(f) : f \in [1..n -> shapes] } : n \in 0..BarsToAggregate }

\* a BreakoutStrategy whose _aggregate_bars is called directly
AggregateUnit ==
  [fn |-> "aggregate", call |-> "__init__", arg |-> None, ret |-> None]

\* BreakoutStrategy._aggregate_bars called on the buffer
AggregateBars ==
  /\ unit.fn = "aggregate"
  /\ unit.call = "__init__"
  /\ unit' = [unit EXCEPT !.call = "_aggregate_bars",
                          !.arg = Some(five_second_bars),
                          !.ret = Some(aggregate_bars(five_second_bars))]
  /\ UNCHANGED <<pc, engineVars, sessionVars, queueVars,
                 contract_details_queue, rcd, gexVars, gw>>

\* a BreakoutStrategy holding a buffer of sub-bars
AggregateInit ==
  /\ pc = "init"
  /\ state = "INITIALIZING"
  /\ is_connected = FALSE
  /\ client_isConnected = FALSE
  /\ next_order_id = None
  /\ next_req_id = 0
  /\ gex_next_req_id = GexReqIdBase
  /\ rt_bars_req_id = None
  /\ orb_bars = <<>>
  /\ bars_received = <<>>
  /\ orb_high = 0
  /\ orb_low = 0
  /\ five_second_bars \in SubBarBuffers
  /\ breakout_signal = None
  /\ spot_price = 0
  /\ highest_gex_strike = 0
  /\ option_expiration = None
  /\ next_valid_id_queue = <<>>
  /\ historical_data_queue = <<>>
  /\ realtime_bar_queue = <<>>
  /\ error_queue = <<>>
  /\ client_log = <<>>
  /\ place_trade_calls = 0
  /\ contract_details_queue = <<>>
  /\ rcd = [at |-> "idle", req_id |-> None, details |-> None, result |-> None]
  /\ unit = AggregateUnit
  /\ tick_price_queue = <<>>
  /\ option_computation_queue = <<>>
  /\ tick_size_queue = <<>>
  /\ sec_def_opt_params_queue = <<>>
  /\ gex = NoGex
  /\ gw = [connect_failures |-> 0, lost_in |-> None, hist_req |-> None,
           hist_bars |-> 0, hist_done |-> FALSE, rt_bars |-> 0, timeouts |-> 0,
           cd_rows |-> 0, cd_done |-> FALSE, foreign |-> 0, ticks |-> {}]

AggregateNext == AggregateBars

SpecAggregate == AggregateInit /\ [][AggregateNext]_vars

\* ------------------------------------- the order manager and its connector
\* prices are integer cents, percentages integer hundredths
\* place_trade: entry_price = 1.50  # Placeholder
EntryPriceCents == 150

\* InstrumentConfig.dict(): the keys of OrderManager.contract_info
InstrumentKeys == {"ticker", "exchange", "currency"}

\* the exit legs' action in _place_bracket_order
opposite_action(action) == IF action = "BUY" THEN "SELL" ELSE "BUY"

\* a rounding that drops the fraction
round_2_decimals_floor(num) == {num \div 100}

\* round(x, 2) for x = num / 10000 (num hundredths of a cent), in cents. The
\* product is a binary float: off a tie it rounds to the nearest cent; on an
\* exact decimal tie the float lies on either side of it (1.5 * 1.15 gives
\* 1.72, 1.5 * 1.25 gives 1.88), so both cents are outcomes.
round_2_decimals(num) ==
  LET q == num \div 100
      r == num % 100
  IN  IF r < 50 THEN {q} ELSE IF r > 50 THEN {q + 1} ELSE {q, q + 1}

\* Python round() of num / den to an integer: nearest, ties to even
round_half_even(num, den) ==
  LET q == num \div den
      r == num % den
  IN  IF 2 * r < den THEN q
      ELSE IF 2 * r > den THEN q + 1
      ELSE IF q % 2 = 0 THEN q ELSE q + 1

\* OrderManager._get_atm_strike
get_atm_strike(spot) == round_half_even(spot, 5) * 5

\* OrderManager._create_option_contract: None stands for the KeyError of
\* contract_info['symbol']
create_option_contract(contract_info, strike, right, expiration) ==
  IF "symbol" \in contract_info
  THEN Some([secType |-> "OPT", strike |-> strike, right |-> right,
             lastTradeDateOrContractMonth |-> expiration])
  ELSE None

\* an ibapi Order as _place_bracket_order fills it (parentId 0 by default;
\* price is lmtPrice of a LMT order and auxPrice of a STP order)
Order(orderId, action, orderType, price, parentId, transmit) ==
  [op |-> "placeOrder", id |-> orderId, action |-> action,
   orderType |-> orderType, price |-> price, totalQuantity |-> 1,
   parentId |-> parentId, transmit |-> transmit]

\* OrderManager._place_bracket_order with the rounded prices tp and sl: the
\* three place_order calls in order and the connector's counter afterwards
place_bracket_order(noid, entry_price, action, tp, sl) ==
  LET oid == get_next_order_id(noid)
      parent_order_id == oid.id
  IN  [calls |-> << Order(parent_order_id, action, "LMT", entry_price, 0, FALSE),
                    Order(parent_order_id + 1, opposite_action(action), "LMT",
                          tp, parent_order_id, FALSE),
                    Order(parent_order_id + 2, opposite_action(action), "STP",
                          sl, parent_order_id, TRUE) >>,
       next_order_id |-> oid.next]

\* an OrderManager on a connected IBConnector, with the percentages of the
\* specification's example and of the repository's test
OrderUnits ==
  { [fn |-> "order_manager", contract_info |-> InstrumentKeys,
     take_profit_percentage |-> tp, stop_loss_percentage |-> sl,
     calls |-> 0, handed |-> <<>>,
     call |-> "__init__", arg |-> None, ret |-> None] :
      tp \in {20, 25}, sl \in {15, 30} }

\* spot prices around two strikes of the 5-point grid
AtmSpots == 448..457

orderFixed ==
  UNCHANGED <<pc, engineVars, is_connected, client_isConnected, queueVars,
              contract_details_queue, rcd, gexVars, gw>>

\* OrderManager._get_atm_strike called on its own
GetAtmStrike ==
  /\ unit.fn = "order_manager"
  /\ unit.calls < MaxOrderCalls
  /\ \E spot \in AtmSpots :
       unit' = [unit EXCEPT !.calls = @ + 1, !.call = "_get_atm_strike",
                            !.arg = Some(spot),
                            !.ret = Some(get_atm_strike(spot))]
  /\ UNCHANGED <<next_order_id, client_log>>
  /\ orderFixed

\* IBConnector.get_next_order_id called on its own, as
\* resolve_contract_details does for its request token
GetNextOrderId ==
  /\ unit.fn = "order_manager"
  /\ unit.calls < MaxOrderCalls
  /\ LET oid == get_next_order_id(next_order_id)
     IN  /\ next_order_id' = oid.next
         /\ unit' = [unit EXCEPT !.calls = @ + 1, !.call = "get_next_order_id",
                                 !.arg = None, !.ret = Some(oid.id),
                                 !.handed = Append(@, oid.id)]
  /\ UNCHANGED client_log
  /\ orderFixed

\* OrderManager._place_bracket_order called with an entry price and an action
PlaceBracketOrder ==
  /\ unit.fn = "order_manager"
  /\ unit.calls < MaxOrderCalls
  /\ \E entry_price \in {EntryPriceCents - 1, EntryPriceCents, EntryPriceCents + 1},
        action \in {"BUY", "SELL"} :
     \E tp \in round_2_decimals(entry_price * (100 + unit.take_profit_percentage)),
        sl \in round_2_decimals(entry_price * (100 - unit.stop_loss_percentage)) :
       LET r == place_bracket_order(next_order_id, entry_price, action, tp, sl)
       IN  /\ client_log' = client_log \o r.calls
           /\ next_order_id' = r.next_order_id
           /\ unit' = [unit EXCEPT
                         !.calls = @ + 1, !.call = "_place_bracket_order",
                         !.arg = Some([entry_price |-> entry_price,
                                       action |-> action]),
                         !.ret = Some([take_profit_price |-> tp,
                                       stop_loss_price |-> sl])]
  /\ orderFixed

\* OrderManager.place_trade on the connector: the decision, the ATM strike,
\* the option contract and the bracket (the action of both decisions is BUY)
OmPlaceTrade ==
  /\ unit.fn = "order_manager"
  /\ unit.calls < MaxOrderCalls
  /\ \E type \in {"BUY", "SELL", "HOLD"}, strike \in {445, 450, 455} :
       LET signal == Signal(type, IF type = "HOLD" THEN None ELSE Some(450))
           spot == 450
           trade_decision == make_trade_decision(signal, spot, strike)
           atm_strike == get_atm_strike(spot)
           option_contract ==
             create_option_contract(unit.contract_info, atm_strike,
                                    trade_decision[1], "20240105")
           done(outcome) ==
             [unit EXCEPT !.calls = @ + 1, !.call = "place_trade",
                          !.arg = Some([signal |-> signal, spot_price |-> spot,
                                        highest_gamma_strike |-> strike]),
                          !.ret = Some([decision |-> trade_decision,
                                        outcome |-> outcome])]
       IN  IF trade_decision = None
           THEN /\ unit' = done("no_trade")
                /\ UNCHANGED <<next_order_id, client_log>>
           ELSE IF option_contract = None
           THEN /\ unit' = done("KeyError")
                /\ UNCHANGED <<next_order_id, client_log>>
           ELSE \E tp \in round_2_decimals(EntryPriceCents
                                           * (100 + unit.take_profit_percentage)),
                   sl \in round_2_decimals(EntryPriceCents
                                           * (100 - unit.stop_loss_percentage)) :
                  LET r == place_bracket_order(next_order_id, EntryPriceCents,
                                               "BUY", tp, sl)
                  IN  /\ client_log' = client_log \o r.calls
                      /\ next_order_id' = r.next_order_id
                      /\ unit' = done("bracket")
  /\ orderFixed

\* an OrderManager built on a connector that connect() has confirmed
OrdersInit ==
  /\ pc = "init"
  /\ state = "INITIALIZING"
  /\ is_connected = TRUE
  /\ client_isConnected = TRUE
  /\ next_order_id \in {Some(n) : n \in 1..MaxFirstOrderId}
  /\ next_req_id = 0
  /\ gex_next_req_id = GexReqIdBase
  /\ rt_bars_req_id = None
  /\ orb_bars = <<>>
  /\ bars_received = <<>>
  /\ orb_high = 0
  /\ orb_low = 0
  /\ five_second_bars = <<>>
  /\ breakout_signal = None
  /\ spot_price = 0
  /\ highest_gex_strike = 0
  /\ option_expiration = None
  /\ next_valid_id_queue = <<>>
  /\ historical_data_queue = <<>>
  /\ realtime_bar_queue = <<>>
  /\ error_queue = <<>>
  /\ client_log = << Call("connect", 0) >>
  /\ place_trade_calls = 0
  /\ contract_details_queue = <<>>
  /\ rcd = [at |-> "idle", req_id |-> None, details |-> None, result |-> None]
  /\ unit \in OrderUnits
  /\ tick_price_queue = <<>>
  /\ option_computation_queue = <<>>
  /\ tick_size_queue = <<>>
  /\ sec_def_opt_params_queue = <<>>
  /\ gex = NoGex
  /\ gw = [connect_failures |-> 0, lost_in |-> None, hist_req |-> None,
           hist_bars |-> 0, hist_done |-> FALSE, rt_bars |-> 0, timeouts |-> 0,
           cd_rows |-> 0, cd_done |-> FALSE, foreign |-> 0, ticks |-> {}]

OrdersNext ==
  \/ GetAtmStrike
  \/ GetNextOrderId
  \/ PlaceBracketOrder
  \/ OmPlaceTrade

SpecOrders == OrdersInit /\ [][OrdersNext]_vars

\* ------------------------------------------- connect(), attempt by attempt
\* IBConnector.connect and _wait_for_connection taken step by step under a
\* caller that retries after ConnectionError as Engine._state_connect does.
\* gw.answers[k] is the id the gateway delivered for the k-th client.connect
\* (None while it has delivered none), gw.socks[k] whether that attempt's
\* socket opened. The reader thread of an attempt runs beside the workflow
\* thread: it calls nextValidId when it has the message, which may be just
\* after the wait of that attempt has timed out.

\* IBConnector.connect up to the wait: client.connect and the reader thread
ConnectorConnect ==
  /\ pc = "connect_idle"
  /\ ~is_connected
  /\ Len(gw.answers) < MaxConnectAttempts
  /\ \E sock \in BOOLEAN :
       /\ client_isConnected' = sock
       /\ gw' = [gw EXCEPT !.answers = Append(@, None),
                           !.socks = Append(@, sock)]
  /\ client_log' = client_connect(client_log)
  /\ pc' = "connect_wait"
  /\ UNCHANGED <<callVars, engineVars, is_connected, next_order_id, queueVars>>

\* IBWrapper.nextValidId, called by the reader thread of the latest attempt,
\* whose socket opened: during the wait, or with a message it had read when
\* the wait timed out (before the caller's next attempt)
GwNextValidId ==
  /\ \E k \in {Len(gw.answers)} \ {0}, v \in FirstOrderIds :
       /\ gw.socks[k]
       /\ gw.answers[k] = None
       /\ gw' = [gw EXCEPT !.answers[k] = Some(v)]
       /\ next_valid_id_queue' = put(next_valid_id_queue, v)
  /\ UNCHANGED <<callVars, pc, engineVars, sessionVars, historical_data_queue,
                 realtime_bar_queue, error_queue>>

\* _wait_for_connection: next_valid_id_queue.get returns an item
ConnectorWaitGet ==
  /\ pc = "connect_wait"
  /\ next_valid_id_queue # <<>>
  /\ next_order_id' = Some(Head(next_valid_id_queue))
  /\ next_valid_id_queue' = Tail(next_valid_id_queue)
  /\ is_connected' = TRUE
  /\ pc' = "connected"
  /\ UNCHANGED <<callVars, engineVars, client_isConnected, client_log,
                 historical_data_queue, realtime_bar_queue, error_queue, gw>>

\* _wait_for_connection, "except Empty": disconnect() and ConnectionError,
\* which connect() answers with disconnect() again before the caller's retry
ConnectorWaitTimeout ==
  /\ pc = "connect_wait"
  /\ next_valid_id_queue = <<>>
  /\ LET s2 == disconnect(disconnect(Session))
     IN  /\ is_connected' = s2.is_connected
         /\ client_isConnected' = s2.client_isConnected
         /\ client_log' = s2.log
  /\ pc' = "connect_idle"
  /\ UNCHANGED <<callVars, engineVars, next_order_id, queueVars, gw>>

\* a connector on which connect() has not been called yet
ConnectInit ==
  /\ pc = "connect_idle"
  /\ state = "CONNECTING"
  /\ is_connected = FALSE
  /\ client_isConnected = FALSE
  /\ next_order_id = None
  /\ next_req_id = 0
  /\ gex_next_req_id = GexReqIdBase
  /\ rt_bars_req_id = None
  /\ orb_bars = <<>>
  /\ bars_received = <<>>
  /\ orb_high = 0
  /\ orb_low = 0
  /\ five_second_bars = <<>>
  /\ breakout_signal = None
  /\ spot_price = 0
  /\ highest_gex_strike = 0
  /\ option_expiration = None
  /\ next_valid_id_queue = <<>>
  /\ historical_data_queue = <<>>
  /\ realtime_bar_queue = <<>>
  /\ error_queue = <<>>
  /\ client_log = <<>>
  /\ place_trade_calls = 0
  /\ contract_details_queue = <<>>
  /\ rcd = [at |-> "idle", req_id |-> None, details |-> None, result |-> None]
  /\ unit = NoUnit
  /\ tick_price_queue = <<>>
  /\ option_computation_queue = <<>>
  /\ tick_size_queue = <<>>
  /\ sec_def_opt_params_queue = <<>>
  /\ gex = NoGex
  /\ gw = [connect_failures |-> 0, lost_in |-> None, hist_req |-> None,
           hist_bars |-> 0, hist_done |-> FALSE, rt_bars |-> 0, timeouts |-> 0,
           cd_rows |-> 0, cd_done |-> FALSE, foreign |-> 0, ticks |-> {},
           answers |-> <<>>, socks |-> <<>>]

ConnectNext ==
  \/ ConnectorConnect
  \/ GwNextValidId
  \/ ConnectorWaitGet
  \/ ConnectorWaitTimeout

SpecConnect == ConnectInit /\ [][ConnectNext]_vars

\* =================================================================== claims

\* the transitions of the workflow state machine, in the code's state names
WorkflowEdges ==
  { <<"CONNECTING", "GETTING_OPENING_RANGE">>,
    <<"GETTING_OPENING_RANGE", "MONITORING_BREAKOUT">>,
    <<"GETTING_OPENING_RANGE", "SHUTDOWN">>,
    <<"MONITORING_BREAKOUT", "ANALYZING_GEX">>,
    <<"MONITORING_BREAKOUT", "CONNECTING">>,
    <<"ANALYZING_GEX", "PENDING_TRADE_EXECUTION">>,
    <<"ANALYZING_GEX", "SHUTDOWN">>,
    <<"PENDING_TRADE_EXECUTION", "SHUTDOWN">> }

\* C1: from the moment run() has set the run's initial state CONNECTING, the
\* state changes only along the edges of WorkflowEdges or to SHUTDOWN in a
\* call of shutdown() (run's and main's finally blocks), and once the state
\* is SHUTDOWN no step changes it.
C1_OnlyWorkflowEdges ==
  [][ /\ (state # "INITIALIZING" /\ state' # state) =>
           \/ <<state, state'>> \in WorkflowEdges
           \/ state' = "SHUTDOWN" /\ pc \in {"finally", "returned"}
      /\ state = "SHUTDOWN" => state' = "SHUTDOWN" ]_vars

\* C1 witness: a run that went through every stage and was shut down
C1_Witness ==
  /\ pc = "exited" /\ state = "SHUTDOWN"
  /\ place_trade_calls = 1
  /\ option_expiration # None

\* a step of the monitoring loop in which realtime_bar_queue.get returned
RtGetStep ==
  /\ pc = "monitor_wait"
  /\ realtime_bar_queue # <<>>
  /\ realtime_bar_queue' = Tail(realtime_bar_queue)

\* the signal the aggregator returns for the bar at the head of the queue
HeadSignal ==
  add_realtime_bar(five_second_bars, Head(realtime_bar_queue)[2],
                   orb_high, orb_low).signal

\* C2: in MONITORING_BREAKOUT the engine moves to ANALYZING_GEX on exactly the
\* steps at which the aggregator returns a non-HOLD signal; that signal is
\* stored, the handler returns with a cancel issued for the token of the
\* active subscription, and afterwards no bar is taken from the queue or fed
\* to the aggregator any more.
C2_OncePerSignal ==
  [][ /\ (state # "ANALYZING_GEX" /\ state' = "ANALYZING_GEX") =>
           (state = "MONITORING_BREAKOUT" /\ RtGetStep /\ HeadSignal.signal_type # "HOLD")
      /\ (RtGetStep /\ HeadSignal.signal_type # "HOLD") =>
           /\ state = "MONITORING_BREAKOUT" /\ state' = "ANALYZING_GEX"
           /\ breakout_signal = None /\ breakout_signal' = Some(HeadSignal)
           /\ pc' = "loop"
           /\ rt_bars_req_id # None
           /\ rt_bars_req_id[1] \in RtCancelled(client_log')
           /\ rt_bars_req_id[1] \notin RtCancelled(client_log)
      /\ (RtGetStep /\ HeadSignal.signal_type = "HOLD") =>
           /\ state' = state /\ breakout_signal' = breakout_signal
           /\ pc' = "monitor_wait"
      /\ breakout_signal # None =>
           /\ breakout_signal' = breakout_signal
           /\ five_second_bars' = five_second_bars
           /\ ~RtGetStep ]_vars

\* C2 witness: the handler has returned after a breakout signal
C2_Witness ==
  /\ state = "ANALYZING_GEX" /\ pc = "loop"
  /\ breakout_signal # None
  /\ rt_bars_req_id = None
  /\ RtCancelled(client_log) # {}

\* the connection-closed callback has been delivered (error event, token -1)
ConnectionLostDelivered ==
  \E i \in 1..Len(error_queue) : error_queue[i] = <<-1, -1, "Connection lost">>

\* the step at which the monitoring loop's get times out (60 s, no bar)
LivenessTimeoutStep ==
  /\ pc = "monitor_wait"
  /\ realtime_bar_queue = <<>>
  /\ pc' = "loop"

\* C3: at a liveness timeout in MONITORING_BREAKOUT the engine goes to
\* CONNECTING if the connection-closed callback was delivered while it was
\* monitoring, and stays in MONITORING_BREAKOUT if the connection is intact.
C3_ReconnectAfterLoss ==
  [][ LivenessTimeoutStep =>
        /\ (ConnectionLostDelivered /\ gw.lost_in = Some("MONITORING_BREAKOUT"))
              => state' = "CONNECTING"
        /\ ~ConnectionLostDelivered => state' = "MONITORING_BREAKOUT" ]_vars

\* a step of _state_connect in which connect() made a connection attempt
ConnectAttemptStep ==
  /\ pc = "loop" /\ state = "CONNECTING"
  /\ Len(client_log') = Len(client_log) + 1 \/ Len(client_log') = Len(client_log) + 2
  /\ client_log'[Len(client_log) + 1] = Call("connect", 0)

SentinelStep ==
  /\ pc = "hist_wait"
  /\ historical_data_queue # <<>>
  /\ Head(historical_data_queue) = <<next_req_id, None>>
  /\ historical_data_queue' = Tail(historical_data_queue)

\* the step at which the historical stream's get times out (20 s, no item)
HistTimeoutStep ==
  /\ pc = "hist_wait"
  /\ historical_data_queue = <<>>
  /\ pc' = "loop"

C6_ShutdownAfterPlanner ==
  [][ /\ place_trade_calls' <= 1
      /\ place_trade_calls' # place_trade_calls =>
           /\ state = "PENDING_TRADE_EXECUTION" /\ pc = "loop"
           /\ \/ state' = "SHUTDOWN" /\ pc' = "loop"
              \/ state' = state /\ pc' = "finally"
      /\ (state = "PENDING_TRADE_EXECUTION" /\ state' # state) =>
           state' = "SHUTDOWN"
      /\ (state = "PENDING_TRADE_EXECUTION" /\ state' # state /\ pc = "loop") =>
           place_trade_calls' = place_trade_calls + 1
      /\ (place_trade_calls' = 1 /\ pc' = "returned") => state' = "SHUTDOWN" ]_vars

\* C6 witness: the planner was invoked, returned without a trade, and the
\* handler left the engine in SHUTDOWN
C6_Witness ==
  /\ place_trade_calls = 1
  /\ state = "SHUTDOWN" /\ pc = "loop"
  /\ make_trade_decision(breakout_signal[1], spot_price, highest_gex_strike) = None

\* C7: from every reachable state, a second shutdown() right after a first
\* one changes nothing (no state change, no cancel request, no disconnect),
\* and the first leaves state SHUTDOWN, the session disconnected and no
\* active subscription recorded.
C7_ShutdownIdempotent ==
  LET once == shutdown(Session)
  IN  /\ shutdown(once) = once
      /\ once.state = "SHUTDOWN"
      /\ ~once.is_connected
      /\ once.rt = None

\* C7 witness: main() has called shutdown() a second time after run()'s own
\* call cancelled a live subscription and disconnected
C7_Witness ==
  /\ pc = "exited"
  /\ breakout_signal = None
  /\ RtCancelled(client_log) # {}
  /\ client_log[Len(client_log)] = Call("disconnect", 0)

\* C8: when shutdown() has completed, every real-time bar subscription the
\* engine opened has had a cancel request issued for its token.
C8_EverySubscriptionCancelled ==
  pc \in {"returned", "exited"} =>
    RtRequested(client_log) \subseteq RtCancelled(client_log)

\* the handlers _process_state dispatches to
StateHandlers ==
  \/ StateConnect
  \/ StateGetOpeningRange
  \/ StateMonitorForBreakout
  \/ StateAnalyzeGex
  \/ StateExecuteTrade

RequestOps ==
  {"reqHistoricalData", "reqRealTimeBars", "reqContractDetails",
   "reqSecDefOptParams", "reqMktData"}

\* C10: no two requests of a session are issued with the same token.
C10_TokensUnique ==
  \A i, j \in 1..Len(client_log) :
    (i < j /\ client_log[i].op \in RequestOps /\ client_log[j].op \in RequestOps)
      => client_log[i].id # client_log[j].id

\* C11: when resolve_contract_details returns a result, it has consumed the
\* stream of its token up to the sentinel: the sentinel was delivered and the
\* contract-details channel holds no row and no sentinel with that token.
C11_DrainedToSentinel ==
  (rcd.at = "returned" /\ rcd.result # None) =>
    /\ gw.cd_done
    /\ ItemsOf(contract_details_queue, rcd.req_id[1]) = {}

\* C12: a blocking wait that ends while the gateway has delivered no payload
\* with the request's own token ends with the timeout outcome, whatever was
\* delivered under other tokens: SHUTDOWN for the historical-bar wait, None
\* for contract resolution.
C12_WaitEndsWithTimeout ==
  [][ /\ (pc = "hist_wait" /\ pc' = "loop" /\ gw.hist_bars = 0 /\ ~gw.hist_done)
         => state' = "SHUTDOWN"
      /\ (pc = "resolve_wait" /\ pc' = "resolved" /\ gw.cd_rows = 0
          /\ ~gw.cd_done)
         => rcd'.result = None ]_vars

\* the connect calls made on the client so far
ConnectCalls(log) == { i \in 1..Len(log) : log[i].op = "connect" }

\* a step of _state_connect in which connect() raised ConnectionError
ConnectFailedStep ==
  /\ pc = "loop" /\ state = "CONNECTING"
  /\ gw'.connect_failures = gw.connect_failures + 1

LossQueued(queue) == \E i \in 1..Len(queue) : queue[i][1] = -1

\* a step in which a blocking wait of the workflow thread returns: with an
\* item taken from its channel, or with the timeout
WaitReturnsStep ==
  /\ pc \in {"hist_wait", "monitor_wait"}
  /\ \/ pc' = "loop"
     \/ Len(historical_data_queue') < Len(historical_data_queue)
     \/ Len(realtime_bar_queue') < Len(realtime_bar_queue)

\* C14: a connection-loss event that is on the error channel when a blocking
\* wait of the workflow thread returns is taken from the channel by then.
C14_LossObserved ==
  [][ (WaitReturnsStep /\ LossQueued(error_queue))
        => ~LossQueued(error_queue') ]_vars

\* a step in which a callback of the receive thread hands a payload over
HandOffStep ==
  \/ Len(historical_data_queue') > Len(historical_data_queue)
  \/ Len(realtime_bar_queue') > Len(realtime_bar_queue)
  \/ Len(error_queue') > Len(error_queue)

\* what a hand-off waits for is on the gateway's side only: a payload to
\* deliver, never the position of the workflow thread or a queue's length
HandOffAlwaysPossible ==
  /\ client_isConnected => ENABLED GwConnectionClosed
  /\ (gw.hist_req # None /\ client_isConnected /\ ~gw.hist_done) =>
       ENABLED GwHistoricalDataEnd
  /\ (gw.hist_req # None /\ client_isConnected /\ ~gw.hist_done
      /\ gw.hist_bars < MaxHistBars) => ENABLED GwHistoricalData
  /\ (client_isConnected /\ gw.rt_bars < MaxRtBars
      /\ RtRequested(client_log) \ RtCancelled(client_log) # {}) =>
       ENABLED GwRealtimeBar

HistRequested(log) ==
  { log[i].id : i \in { j \in 1..Len(log) : log[j].op = "reqHistoricalData" } }

\* a step leaves a channel alone, adds one item at its tail, or removes its head
FifoStep(queue, queue_after) ==
  \/ queue_after = queue
  \/ Len(queue_after) = Len(queue) + 1
       /\ SubSeq(queue_after, 1, Len(queue)) = queue
  \/ queue # <<>> /\ queue_after = Tail(queue)

\* within a channel, nothing follows a sentinel under the sentinel's token
SentinelLast(queue) ==
  \A i, j \in 1..Len(queue) :
    (i < j /\ queue[i][1] = queue[j][1]) => queue[i][2] # None

InOpeningWindow(bar) ==
  bar.timestamp % 1440 \in
    MarketOpenMinute .. (MarketOpenMinute + DurationMinutes - 1)

\* C17: add_bar keeps a bar exactly when its time of day, on its own date,
\* is in [open, open + duration); a bar outside is refused with a False
\* result and the collected bars stay as they were.
C17_HalfOpenWindow ==
  [][ (unit.fn = "opening_range"
       /\ Len(bars_received') = Len(bars_received) + 1) =>
        LET bar == bars_received'[Len(bars_received')]
        IN  IF InOpeningWindow(bar)
            THEN orb_bars' = Append(orb_bars, bar) /\ unit'.ret = Some(TRUE)
            ELSE orb_bars' = orb_bars /\ unit'.ret = Some(FALSE) ]_vars

\* C17 witness: a bar stamped on the open was kept and a bar stamped on
\* open + duration was refused
C17_Witness ==
  /\ unit.fn = "opening_range"
  /\ Len(bars_received) = 2
  /\ bars_received[1].timestamp = MarketOpenMinute
  /\ bars_received[2].timestamp = MarketOpenMinute + DurationMinutes
  /\ orb_bars = << bars_received[1] >>

AlignedWindow(aggregation_seconds, ts) == ts \div aggregation_seconds

\* C19: for a strategy with period P and N = P / 5 sub-bars per candle (12
\* for the 60 s period), a call evaluates the breakout rule exactly when its
\* bar is the N-th of the bars collected in one window: the signal returned
\* is then the rule's verdict on the candle of those N bars and the buffer
\* is empty; every other call returns HOLD and keeps the bar; so the buffer
\* is shorter than N after every call.
C19_EvaluatedEveryNthBar ==
  [][ (unit.fn = "breakout" /\ unit'.calls = unit.calls + 1) =>
        LET P == unit.aggregation_seconds
            N == P \div SubBarSeconds
            bar == unit'.arg[1]
            kept == IF five_second_bars # <<>>
                       /\ AlignedWindow(P, five_second_bars[1].timestamp)
                            = AlignedWindow(P, bar.timestamp)
                    THEN five_second_bars ELSE <<>>
            full == Append(kept, bar)
        IN  /\ Len(five_second_bars') < N
            /\ IF Len(full) = N
               THEN /\ five_second_bars' = <<>>
                    /\ unit'.ret = Some(check_breakout(aggregate_bars(full)[1],
                                                       unit.high_level,
                                                       unit.low_level))
               ELSE /\ five_second_bars' = full
                    /\ unit'.ret = Some(Signal("HOLD", None)) ]_vars

\* C19 witness: a strategy with the 60 s period returned BUY on its twelfth
\* call and its buffer is empty
C19_Witness ==
  /\ unit.fn = "breakout" /\ unit.aggregation_seconds = 60
  /\ unit.calls = 12
  /\ unit.ret = Some(Signal("BUY", Some(8)))
  /\ five_second_bars = <<>>

\* C20: check_breakout gives BUY at the candle's close exactly when
\* close > open and low > H, SELL at the close exactly when close < open and
\* high < L, and HOLD in every other case.
C20_BreakoutRule ==
  (unit.fn = "check_breakout" /\ unit.call = "check_breakout") =>
    LET candle == unit.arg[1]
        signal == unit.ret[1]
        bullish == candle.close > candle.open /\ candle.low > unit.high_level
        bearish == candle.close < candle.open /\ candle.high < unit.low_level
    IN  /\ bullish <=> signal = Signal("BUY", Some(candle.close))
        /\ bearish <=> signal = Signal("SELL", Some(candle.close))
        /\ (~bullish /\ ~bearish) <=> signal.signal_type = "HOLD"

\* C20 witness: a rising candle whose low is on the high level was given HOLD
C20_Witness ==
  /\ unit.fn = "check_breakout" /\ unit.call = "check_breakout"
  /\ unit.arg[1].close > unit.arg[1].open
  /\ unit.arg[1].low = unit.high_level
  /\ unit.ret[1].signal_type = "HOLD"

\* C21: for a period P that is a multiple of 5 s, longer than a minute
\* included, the sub-bars reduced into one candle all lie in one window
\* [k*P, (k+1)*P) counted from midnight: when a call completes a candle,
\* the bars it was made of (the buffer and the call's bar) share one
\* aligned window.
C21_CandleInOneAlignedWindow ==
  [][ (unit.fn = "breakout" /\ unit'.calls = unit.calls + 1
       /\ five_second_bars' = <<>>) =>
        LET P == unit.aggregation_seconds
            bar == unit'.arg[1]
        IN  \A i \in 1..Len(five_second_bars) :
              AlignedWindow(P, five_second_bars[i].timestamp)
                = AlignedWindow(P, bar.timestamp) ]_vars

\* the four ticks of the current strike: gamma and open interest for the
\* call token and for the put token
StrikeTicks(frame) ==
  { <<id, t>> : id \in {frame.call_req_id[1], frame.put_req_id[1]},
                t \in {TickModelOption, TickOpenInterest} }

\* a step in which the wait for a strike's option data ends by timeout
StrikeTimeoutStep ==
  /\ pc = "gex" /\ gex.at = "poll_computation"
  /\ gex'.at \in {"poll_computation", "returned"}
  /\ gex'.at = "poll_computation" => gex'.strike = gex.strike + 1

\* C22: a strike whose call and put subscriptions were both sent gamma and
\* open interest while they were open is not skipped: the wait for a
\* strike's data ends by timeout only if one of the four ticks was never
\* delivered, whatever the order the ticks arrived in.
C22_DeliveredStrikeNotSkipped ==
  [][ StrikeTimeoutStep => ~(StrikeTicks(gex) \subseteq gw.ticks) ]_vars

\* the analysis is over: find_and_calculate_gex returned or was left by an
\* exception
AnalysisOver == gex.at \in {"returned", "interrupted"}

\* C23: the per-strike loop is sequential: at every point of the call log at
\* most two market-data subscriptions are open, a strike's subscriptions are
\* opened only when every earlier subscription (the spot's, the earlier
\* strikes') was cancelled, and none is open once the analysis is over,
\* whether the strikes ended with a record, a timeout or an exception.
C23_StrikesOneAtATime ==
  /\ \A i \in 1..Len(client_log) :
       LET before == MktDataOpen(SubSeq(client_log, 1, i - 1))
       IN  /\ Cardinality(MktDataOpen(SubSeq(client_log, 1, i))) <= 2
           /\ client_log[i].op = "reqMktData" =>
                before \subseteq {client_log[i].id - 1}
           /\ (client_log[i].op = "reqMktData" /\ before # {}) =>
                /\ i > 1
                /\ client_log[i - 1] = Call("reqMktData", client_log[i].id - 1)
  /\ AnalysisOver => MktDataOpen(client_log) = {}

\* C23 witness: the second strike's two subscriptions are open after the
\* first strike ended by timeout, and nothing else is open
C23_Witness ==
  /\ gex.at = "poll_computation" /\ gex.strike = 2
  /\ gex.gex_results = <<>>
  /\ MktDataOpen(client_log) = {gex.call_req_id[1], gex.put_req_id[1]}
  /\ Cardinality({ i \in 1..Len(client_log) :
                     client_log[i].op = "cancelMktData" }) = 3

\* the strikes with a record in a dict of records
RecordStrikes(gex_results) ==
  { gex_results[i].strike : i \in 1..Len(gex_results) }

\* C24: a timeout on one strike is not fatal. The timeout adds no record and
\* the loop goes on with the next strike; when the loop is over, the
\* analysis fails exactly when no strike has a record, and otherwise gives a
\* strike that has a record and whose |gex| is the largest of the records.
C24_StrikeTimeoutNonFatal ==
  [][ /\ (StrikeTimeoutStep /\ gex.strike < Len(gex.strikes)) =>
           /\ gex'.at = "poll_computation"
           /\ gex'.gex_results = gex.gex_results
           /\ state' = state
      /\ (StrikeTimeoutStep /\ gex.strike = Len(gex.strikes)) =>
           /\ gex'.at = "returned"
           /\ gex'.gex_results = gex.gex_results
      /\ (pc = "gex" /\ gex.at \in {"poll_computation", "poll_size"}
          /\ gex'.at = "returned") =>
           LET records == gex'.gex_results
           IN  /\ gex'.result = None <=> records = <<>>
               /\ gex'.result # None =>
                    /\ state' = "PENDING_TRADE_EXECUTION"
                    /\ highest_gex_strike' \in RecordStrikes(records)
                    /\ \E i \in 1..Len(records) :
                         /\ records[i].strike = highest_gex_strike'
                         /\ \A j \in 1..Len(records) :
                              Abs(records[i].gex) >= Abs(records[j].gex) ]_vars

\* C24 witness: two strikes were subscribed, one of them timed out, and the
\* analysis gave the strike of the single record
C24_Witness ==
  /\ gex.at = "returned"
  /\ Cardinality({ i \in 1..Len(client_log) :
                     client_log[i].op = "reqMktData" }) = 5
  /\ Len(gex.gex_results) = 1
  /\ gex.result # None
  /\ highest_gex_strike = gex.gex_results[1].strike

\* positions in a call log of the calls op made with token id
CallsOf(log, op, id) == { i \in 1..Len(log) : log[i] = Call(op, id) }

\* the token of the spot-price subscription: the first market-data request
\* of the analysis
SpotRequests(log) == { i \in 1..Len(log) : log[i].op = "reqMktData" }

\* C25: the spot-price subscription is cancelled after the fetch on every
\* outcome (a price, the timeout, an exception): while the fetch waits, its
\* token was subscribed once and not cancelled; from the end of the fetch on,
\* exactly one cancel was issued for that token, after the subscription.
C25_SpotAlwaysCancelled ==
  SpotRequests(client_log) # {} =>
    LET first == CHOOSE i \in SpotRequests(client_log) :
                   \A j \in SpotRequests(client_log) : i <= j
        token == client_log[first].id
        cancels == CallsOf(client_log, "cancelMktData", token)
    IN  /\ Cardinality(CallsOf(client_log, "reqMktData", token)) = 1
        /\ IF gex.at = "spot_wait"
           THEN cancels = {} /\ gex.req_id = Some(token)
           ELSE Cardinality(cancels) = 1 /\ \A i \in cancels : i > first

\* C25 witness: the fetch was left by an exception while it waited, and the
\* last call made is the cancel of its token
C25_Witness ==
  /\ gex.at = "interrupted"
  /\ Cardinality(SpotRequests(client_log)) = 1
  /\ \E i \in 1..Len(client_log) :
       /\ client_log[i].op = "reqMktData"
       /\ i < Len(client_log)
       /\ client_log[Len(client_log)] = Call("cancelMktData", client_log[i].id)

\* a step in which the spot-price fetch returns a price
SpotPriceStep ==
  /\ pc = "gex" /\ gex.at = "spot_wait"
  /\ gex'.at = "poll_computation"

\* a step in which the spot-price fetch ends without a price
SpotNoPriceStep ==
  /\ pc = "gex" /\ gex.at = "spot_wait"
  /\ gex'.at = "returned"

\* C26: the fetch returns the last-trade price whenever a last-trade tick
\* for its token was delivered before it returned, also when the
\* previous-close tick was delivered first; it returns the previous-close
\* price only when no last-trade tick was delivered; it ends without a
\* price only when neither was delivered.
C26_LastTradePreferred ==
  [][ LET last == <<gex.req_id[1], TickLast>> \in gw.ticks
          close == <<gex.req_id[1], TickClose>> \in gw.ticks
      IN  /\ SpotPriceStep =>
               gex'.spot_price = IF last THEN Some(TickPrices[TickLast])
                                 ELSE Some(TickPrices[TickClose])
          /\ SpotNoPriceStep => (~last /\ ~close) ]_vars

\* the calls op in a call log
OpCalls(log, op) == { i \in 1..Len(log) : log[i].op = op }

\* a step in which find_and_calculate_gex returns
AnalysisReturnStep == gex.at # "returned" /\ gex'.at = "returned"

\* C27: the analysis has no silent partial success. A failure of a step
\* (underlying not resolved; no strikes or no expirations; no expiration on
\* the exact target date; no spot price) returns the failure result with no
\* request of a later step issued, and the engine goes to SHUTDOWN with the
\* order planner never invoked; the engine leaves ANALYZING_GEX for the
\* trade stage only with a strike and an expiration on the target date.
C27_NoPartialSuccess ==
  /\ [][ AnalysisReturnStep =>
           /\ state = "ANALYZING_GEX"
           /\ state' = IF gex'.result = None THEN "SHUTDOWN"
                       ELSE "PENDING_TRADE_EXECUTION"
           /\ place_trade_calls' = place_trade_calls
           /\ gex.at = "idle" =>
                /\ gex'.result = None
                /\ OpCalls(client_log', "reqSecDefOptParams") = {}
                /\ OpCalls(client_log', "reqMktData") = {}
           /\ gex.at = "params" =>
                /\ gex'.result = None
                /\ OpCalls(client_log', "reqMktData") = {}
           /\ gex.at = "spot_wait" =>
                /\ gex'.result = None
                /\ Cardinality(OpCalls(client_log', "reqMktData")) = 1 ]_vars
  /\ [](/\ gex.expiration # None =>
             strptime_date(gex.expiration[1]) = Today + DaysToExpiration
        /\ (state = "PENDING_TRADE_EXECUTION" \/ place_trade_calls > 0) =>
             /\ gex.at = "returned" /\ gex.result # None
             /\ highest_gex_strike = gex.result[1][1]
             /\ option_expiration = Some(gex.result[1][2])
             /\ strptime_date(option_expiration[1]) = Today + DaysToExpiration
        /\ (gex.at = "returned" /\ gex.result = None) =>
             /\ state = "SHUTDOWN"
             /\ place_trade_calls = 0)

\* C27 witness: the run is over after the spot-price fetch failed: the one
\* market-data request was the spot's, and the planner was never invoked
C27_Witness ==
  /\ pc = "exited"
  /\ gex.at = "returned" /\ gex.result = None
  /\ Cardinality(OpCalls(client_log, "reqMktData")) = 1
  /\ place_trade_calls = 0
  /\ state = "SHUTDOWN"

\* the positions of the strikes nearest the spot price in a list
NearestPositions(strikes, spot) ==
  { i \in 1..Len(strikes) :
      \A j \in 1..Len(strikes) :
        Abs(strikes[i] - spot) <= Abs(strikes[j] - spot) }

\* C28: the filtered strikes are the contiguous window made of a strike
\* nearest the spot price and strikesQuantity \div 2 strikes on each side of
\* it, with fewer on a side only where the list ends.
C28_WindowAroundNearest ==
  (unit.fn = "filter_strikes" /\ unit.call = "_filter_strikes") =>
    LET strikes == unit.arg[1][1]
        spot == unit.arg[1][2]
        half == unit.strikes_quantity \div 2
    IN  \E n \in NearestPositions(strikes, spot) :
          unit.ret[1] = SubSeq(strikes, Max2(1, n - half),
                               Min2(Len(strikes), n + half))

\* C29: the selected strike has a record whose |gex| is the largest of all
\* records, and of the strikes that tie on the largest |gex| it is the
\* lowest ({450: 1000, 455: 2000, 460: 500} gives 455; {450: 2000,
\* 460: -2000} gives 450).
C29_MaxAbsLowestOnTie ==
  (unit.fn = "select" /\ unit.call = "max") =>
    LET records == unit.arg[1]
        top == { records[i].strike :
                   i \in { k \in 1..Len(records) :
                             \A j \in 1..Len(records) :
                               Abs(records[k].gex) >= Abs(records[j].gex) } }
    IN  /\ unit.ret[1] \in top
        /\ \A k \in top : unit.ret[1] <= k
        /\ records = << [strike |-> 450, gex |-> 1000],
                        [strike |-> 455, gex |-> 2000],
                        [strike |-> 460, gex |-> 500] >> => unit.ret[1] = 455

\* C29 witness: the records {450: 2000, 460: -2000} gave 450
C29_Witness ==
  /\ unit.fn = "select" /\ unit.call = "max"
  /\ unit.arg[1] = << [strike |-> 450, gex |-> 2000],
                      [strike |-> 460, gex |-> -2000] >>
  /\ unit.ret[1] = 450

\* C30: the planner decides for a long call exactly when the signal is BUY
\* and the strike is above the spot price, for a long put exactly when the
\* signal is SELL and the strike is below it, and in every other case (the
\* strike on the spot price and a HOLD signal included) there is no trade:
\* place_trade returns without an order and without an error.
C30_TradeOnlyWhenConfirmed ==
  (unit.fn = "place_trade" /\ unit.call = "place_trade") =>
    LET a == unit.arg[1]
        r == unit.ret[1]
        call == a.signal.signal_type = "BUY"
                /\ a.highest_gamma_strike > a.spot_price
        put_ == a.signal.signal_type = "SELL"
                /\ a.highest_gamma_strike < a.spot_price
    IN  /\ r.decision = Some("C") <=> call
        /\ r.decision = Some("P") <=> put_
        /\ (~call /\ ~put_) =>
             /\ r.decision = None
             /\ r.outcome = "no_trade"
             /\ OpCalls(client_log, "placeOrder") = {}

\* C30 witness: a BUY signal with the strike on the spot price ended in no
\* trade
C30_Witness ==
  /\ unit.fn = "place_trade" /\ unit.call = "place_trade"
  /\ unit.arg[1].signal.signal_type = "BUY"
  /\ unit.arg[1].highest_gamma_strike = unit.arg[1].spot_price
  /\ unit.ret[1] = [decision |-> None, outcome |-> "no_trade"]

\* a step in which place_trade ran for an authorized trade
AuthorizedTradeStep ==
  /\ unit.fn = "order_manager"
  /\ unit'.calls = unit.calls + 1
  /\ unit'.call = "place_trade"
  /\ unit'.ret[1].decision # None

\* the three calls are a bracket: entry, take-profit, stop-loss
IsBracket(e, t, s) ==
  /\ e.op = "placeOrder" /\ t.op = "placeOrder" /\ s.op = "placeOrder"
  /\ e.orderType = "LMT" /\ e.action = "BUY"
  /\ t.orderType = "LMT" /\ s.orderType = "STP"
  /\ t.action = opposite_action(e.action)
  /\ s.action = opposite_action(e.action)
  /\ t.parentId = e.id /\ s.parentId = e.id
  /\ e.id # t.id /\ e.id # s.id /\ t.id # s.id
  /\ ~e.transmit /\ ~t.transmit /\ s.transmit

\* C31: every place_trade for an authorized trade submits exactly three
\* orders, in the order entry, take-profit, stop-loss: the entry a limit
\* order with the entry action, the exits with the opposite action and the
\* entry's id as parent id, three distinct ids, and the transmit flag on the
\* stop-loss alone.
C31_AuthorizedTradeSubmitsBracket ==
  [][AuthorizedTradeStep =>
       /\ Len(client_log') = Len(client_log) + 3
       /\ SubSeq(client_log', 1, Len(client_log)) = client_log
       /\ IsBracket(client_log'[Len(client_log) + 1],
                    client_log'[Len(client_log) + 2],
                    client_log'[Len(client_log) + 3])]_vars

\* C32: the take-profit price is entry * (1 + take-profit percentage) and
\* the stop-loss price entry * (1 - stop-loss percentage), each rounded to
\* the nearest cent (entry 1.50 with 0.20 gives 1.80, with 0.30 gives 1.05),
\* and the orders carry these prices; the ATM strike is the multiple of 5
\* nearest to the spot price (452 gives 450, 453 gives 455).
C32_RoundedPricesAndStrike ==
  /\ (unit.fn = "order_manager" /\ unit.call = "_place_bracket_order") =>
       LET entry == unit.arg[1].entry_price
           tp == unit.ret[1].take_profit_price
           sl == unit.ret[1].stop_loss_price
           n == Len(client_log)
       IN  /\ Abs(100 * tp - entry * (100 + unit.take_profit_percentage)) <= 50
           /\ Abs(100 * sl - entry * (100 - unit.stop_loss_percentage)) <= 50
           /\ (entry = 150 /\ unit.take_profit_percentage = 20) => tp = 180
           /\ (entry = 150 /\ unit.stop_loss_percentage = 30) => sl = 105
           /\ client_log[n - 2].price = entry
           /\ client_log[n - 1].price = tp
           /\ client_log[n].price = sl
  /\ (unit.fn = "order_manager" /\ unit.call = "_get_atm_strike") =>
       LET spot == unit.arg[1]
           atm == unit.ret[1]
       IN  /\ atm % 5 = 0
           /\ Abs(atm - spot) <= 2
           /\ spot = 452 => atm = 450
           /\ spot = 453 => atm = 455

\* C32 witness: a bracket for entry 1.50 with 0.20 and 0.30 was priced 1.80
\* and 1.05
C32_Witness ==
  /\ unit.fn = "order_manager" /\ unit.call = "_place_bracket_order"
  /\ unit.arg[1].entry_price = 150
  /\ unit.take_profit_percentage = 20 /\ unit.stop_loss_percentage = 30
  /\ unit.ret[1] = [take_profit_price |-> 180, stop_loss_price |-> 105]

\* C36: order ids never collide. The ids of the place_order calls are
\* pairwise distinct, the ids handed out by get_next_order_id as request
\* tokens are pairwise distinct, and no token handed out is the id of an
\* order: after a bracket p, p+1, p+2 no get_next_order_id call returns p+1
\* or p+2.
C36_OrderIdsNeverCollide ==
  unit.fn = "order_manager" =>
    LET orders == OpCalls(client_log, "placeOrder")
        handed == unit.handed
    IN  /\ \A i, j \in orders : i # j => client_log[i].id # client_log[j].id
        /\ \A i, j \in 1..Len(handed) : i # j => handed[i] # handed[j]
        /\ \A k \in 1..Len(handed) :
             \A i \in orders : handed[k] # client_log[i].id

RECURSIVE SumVolumes(_)
\* the volumes of a buffer added up from its head
SumVolumes(buf) ==
  IF buf = <<>> THEN 0 ELSE Head(buf).volume + SumVolumes(Tail(buf))

\* C33: the candle built from a buffer has the first sub-bar's open, the
\* last sub-bar's close, the largest of the highs, the smallest of the lows
\* and the sum of the volumes; so its low is not above its high when no
\* sub-bar's low is above its high.
C33_CandleReduction ==
  (unit.fn = "aggregate" /\ unit.call = "_aggregate_bars"
   /\ unit.arg[1] # <<>>) =>
    LET buf == unit.arg[1]
        idx == 1..Len(buf)
        candle == unit.ret[1][1]
    IN  /\ candle.open = buf[1].open
        /\ candle.close = buf[Len(buf)].close
        /\ \E i \in idx : candle.high = buf[i].high
        /\ \A i \in idx : candle.high >= buf[i].high
        /\ \E i \in idx : candle.low = buf[i].low
        /\ \A i \in idx : candle.low <= buf[i].low
        /\ candle.volume = SumVolumes(buf)
        /\ (\A i \in idx : buf[i].low <= buf[i].high) => candle.low <= candle.high

\* C33 witness: a full buffer whose high comes from its last sub-bar and whose
\* low from its first gave a candle with those two extremes
C33_Witness ==
  /\ unit.fn = "aggregate" /\ unit.call = "_aggregate_bars"
  /\ Len(unit.arg[1]) = BarsToAggregate
  /\ unit.arg[1][1].high < unit.arg[1][BarsToAggregate].high
  /\ unit.arg[1][1].low < unit.arg[1][BarsToAggregate].low
  /\ unit.ret[1][1].high = unit.arg[1][BarsToAggregate].high
  /\ unit.ret[1][1].low = unit.arg[1][1].low
  /\ unit.ret[1][1].volume > BarsToAggregate

\* every sub-bar of the buffer lies in the window of the first
BufferInOneWindow ==
  unit.fn = "breakout" =>
    \A i \in 1..Len(five_second_bars) :
      AlignedWindow(unit.aggregation_seconds, five_second_bars[i].timestamp)
        = AlignedWindow(unit.aggregation_seconds, five_second_bars[1].timestamp)

\* a call whose bar lies outside the window of the buffer's first sub-bar
BoundaryViolationStep ==
  /\ unit.fn = "breakout"
  /\ unit'.calls = unit.calls + 1
  /\ five_second_bars # <<>>
  /\ AlignedWindow(unit.aggregation_seconds, five_second_bars[1].timestamp)
       # AlignedWindow(unit.aggregation_seconds, unit'.arg[1].timestamp)

RtLive(log) == RtRequested(log) \ RtCancelled(log)

\* C35: at every moment of a run at most one real-time bar subscription is
\* live, and the engine's recorded token is that subscription's token, also
\* across repeated liveness timeouts in MONITORING_BREAKOUT with the
\* connection up.
C35_OneLiveSubscription ==
  /\ Cardinality(RtLive(client_log)) <= 1
  /\ \A id \in RtLive(client_log) : rt_bars_req_id = Some(id)

\* a step in which connect() reports success
ConnectSuccessStep == ~is_connected /\ is_connected'

\* C37: a connect() that reports success was confirmed by the current
\* attempt: the gateway has delivered an id for the latest client.connect
\* and the session's order-id counter is that id; an id delivered for an
\* earlier attempt after its wait timed out is not taken.
C37_ConfirmedByCurrentAttempt ==
  [][ConnectSuccessStep =>
       /\ gw.answers[Len(gw.answers)] # None
       /\ next_order_id' = gw.answers[Len(gw.answers)]]_vars

\* a step in which the monitoring loop takes a bar off the channel and hands
\* it to the aggregator
BarFedStep ==
  /\ pc = "monitor_wait"
  /\ realtime_bar_queue # <<>>
  /\ realtime_bar_queue' = Tail(realtime_bar_queue)

\* C38: only a real-time bar whose request id is the engine's active
\* subscription token is fed to the breakout aggregator; a bar of an
\* earlier, superseded or cancelled subscription is not.
C38_OnlyActiveSubscriptionFed ==
  [][BarFedStep => rt_bars_req_id = Some(Head(realtime_bar_queue)[1])]_vars

\* a step in which OrderManager.place_trade is invoked
PlaceTradeStep == place_trade_calls' = place_trade_calls + 1

\* C39: whenever the order planner is invoked, the engine is in the trade
\* execution state (PENDING_TRADE_EXECUTION in the code), the stored signal
\* is BUY or SELL, the opening-range levels are the extremes of at least one
\* accepted bar, the gamma analysis has returned a strike and an expiration
\* after its subscriptions, and no real-time bar subscription is recorded as
\* active.
C39_PlannerPreconditions ==
  [][PlaceTradeStep =>
       /\ state = "PENDING_TRADE_EXECUTION"
       /\ breakout_signal # None
       /\ breakout_signal[1].signal_type \in {"BUY", "SELL"}
       /\ orb_bars # <<>>
       /\ \A i \in 1..Len(orb_bars) :
            /\ InOpeningWindow(orb_bars[i])
            /\ orb_bars[i].high <= orb_high
            /\ orb_bars[i].low >= orb_low
       /\ \E i \in 1..Len(orb_bars) : orb_bars[i].high = orb_high
       /\ \E i \in 1..Len(orb_bars) : orb_bars[i].low = orb_low
       /\ option_expiration # None /\ option_expiration # Some("")
       /\ \E k \in 1..MaxStrikes : highest_gex_strike = StrikeAt(k)
       /\ OpCalls(client_log, "reqSecDefOptParams") # {}
       /\ rt_bars_req_id = None]_vars

\* C39 witness: place_trade has been invoked on a SELL signal
C39_Witness ==
  /\ place_trade_calls = 1
  /\ breakout_signal # None
  /\ breakout_signal[1].signal_type = "SELL"
  /\ option_expiration # None
  /\ rt_bars_req_id = None

\* C40: once a breakout signal other than HOLD has been detected (the engine
\* is in ANALYZING_GEX with the signal stored), the run reaches SHUTDOWN,
\* under fair scheduling of the workflow thread and whatever the gateway
\* delivers or does not deliver.
C40_SignalLeadsToShutdown ==
  (state = "ANALYZING_GEX" /\ breakout_signal # None) ~> (state = "SHUTDOWN")

====
